---- MODULE Spec2Model ----
(***************************************************************************)
(* Model of github.com/pivaldi/presence: the tri-state container Of[T],    *)
(* its JSON and database/sql codecs and the process-wide configuration.    *)
(*                                                                         *)
(* A container is a record [val, isSet, marshalUnset, scanNull].  val is a *)
(* pointer: NilPtr or an address of the heap, which maps addresses to Go   *)
(* values.  The two override pointers are <<>> (nil) or <<b>>.             *)
(* Go values, driver values and texts are records tagged by a field k / f. *)
(***************************************************************************)
EXTENDS Integers, Sequences, FiniteSets, TLC

VARIABLES
    typ,                  \* the declared type T of the container
    n,                    \* the container under test, an Of[T]
    other,                \* a second Of[T] variable, which copies of n are assigned to
    heap,                 \* the cells val pointers point to
    defaultMarshalUnset,  \* config.go package default
    defaultScanNull,      \* config.go package default
    configMu,             \* config.go lock: its writer, 0 when none, and its readers
    pc,                   \* where each goroutine stands in the call it is making
    cells,                \* the cells override pointers point to, where pointers are kept
    last                  \* the last call: operation, receiver, argument, error

vars == <<typ, n, other, heap, defaultMarshalUnset, defaultScanNull, configMu, pc, cells, last>>

----------------------------------------------------------------------------
(* Bounds *)

MaxAddr == 3      \* heap cells: the live cells of n and other and one being allocated
SmallInt == 1     \* small payload integers range over 0..SmallInt
MaxArgs == 2      \* arguments handed to the variadic Or
NumProcs == 2     \* goroutines calling into the package at once
MaxCells == 5     \* override cells: two for each of two containers and one being allocated

----------------------------------------------------------------------------
(* config.go *)

UnsetSkip == 0
UnsetNull == 1
ScanNullAsNull == 0
ScanNullAsUnset == 1

MarshalUnsetBehavior == {UnsetSkip, UnsetNull}
ScanNullBehavior == {ScanNullAsNull, ScanNullAsUnset}

(* the getter answering the initial default whatever was set *)
GetDefaultMarshalUnset_Initial == UnsetSkip

GetDefaultMarshalUnset == defaultMarshalUnset
GetDefaultScanNull == defaultScanNull

----------------------------------------------------------------------------
(* Go values of the declared types *)

Types == {"string", "uuid", "int16", "int32", "int", "int64", "float64",
          "bool", "time", "json", "scanner"}

IntTypes == {"int16", "int32", "int", "int64"}

MaxInt16 == 32767
MinInt16 == -32768
MaxInt32 == 2147483647

IntV(i) == [k |-> "int", i |-> i]
FloatV(m) == [k |-> "float", m |-> m]        \* m tenths: 35 is 3.5
BoolV(b) == [k |-> "bool", b |-> b]
StrV(t) == [k |-> "string", s |-> t]         \* t is a text
TimeV(t) == [k |-> "time", t |-> t]          \* instant t, 0 is time.Time{}
UUIDV(u) == [k |-> "uuid", u |-> u]          \* 0 is uuid.Nil
ObjV(a, b) == [k |-> "obj", a |-> a, b |-> b] \* struct{A int; B int}
PhoneV(t) == [k |-> "phone", s |-> t]        \* a named string type with Scan/Value
CentsV(i) == [k |-> "cents", i |-> i]        \* a named int type whose Value refuses 0
BoxV(chan) == [k |-> "box", chan |-> chan]   \* struct{F any}, F holding 1 or a channel

(* Texts: the contents of a string or []byte, described by their form.      *)
Empty == [f |-> "empty"]                     \* ""
Word(w) == [f |-> "word", w |-> w]           \* letters only, e.g. hello
Dec(i) == [f |-> "dec", i |-> i]             \* decimal integer literal
Frac(m) == [f |-> "frac", m |-> m]           \* decimal with a fraction, m tenths
BoolLit(b) == [f |-> "bool", b |-> b]        \* true / false
UUIDText(u) == [f |-> "uuid", u |-> u]       \* canonical 36-character form
RFC3339(t) == [f |-> "rfc3339", t |-> t]     \* timestamp of instant t
RefLayout == [f |-> "layout"]                \* 2006-01-02T15:04:05Z, Go's reference time
JNull(ws) == [f |-> "jnull", ws |-> ws]      \* null, ws: padded with whitespace
JStr(t) == [f |-> "jstr", s |-> t]           \* the JSON string literal quoting t
JObj(a, b) == [f |-> "jobj", a |-> a, b |-> b] \* {"A":a,"B":b}; <<>> is an absent key
NilBytes == [f |-> "nilbytes"]               \* a nil []byte
JBox(t) == [f |-> "jbox", t |-> t]           \* {"F":t}

RefTimeV == [k |-> "time", ref |-> TRUE]     \* the instant of Go's reference time
YearZeroV == [k |-> "time", year0 |-> TRUE]  \* January 1 of year 0, what Parse yields with no fields
GoTime(t) == [f |-> "gotime", t |-> t]       \* the %v form of a time.Time
Braces == [f |-> "braces"]                   \* {} , the %v form of struct{}{}

ZeroOf(T) ==
    CASE T \in IntTypes -> IntV(0)
      [] T = "string" -> StrV(Empty)
      [] T = "uuid" -> UUIDV(0)
      [] T = "float64" -> FloatV(0)
      [] T = "bool" -> BoolV(FALSE)
      [] T = "time" -> TimeV(0)
      [] T = "json" -> ObjV(0, 0)
      [] T = "scanner" -> PhoneV(Empty)

----------------------------------------------------------------------------
(* The container Of[T] and the heap *)

NilPtr == 0
Addr == 1..MaxAddr
Free == [k |-> "free"]
NilOf == [nil |-> TRUE]                      \* a nil *Of[T]

IsNil(c) == "nil" \in DOMAIN c

ZeroContainer == [val |-> NilPtr, isSet |-> FALSE, marshalUnset |-> <<>>, scanNull |-> <<>>]

Alloc(h) == CHOOSE a \in Addr : h[a] = Free /\ \A b \in Addr : h[b] = Free => a <= b

Res(c, h, err) == [c |-> c, h |-> h, err |-> err]

(* cells no container points to are reclaimed, and the cell of c, if any,  *)
(* is renamed to the first address: addresses have no meaning beyond which *)
(* pointers are equal                                                      *)
Collect(c, h) ==
    IF c.val = NilPtr THEN Res(c, [a \in Addr |-> Free], FALSE)
    ELSE Res([c EXCEPT !.val = 1], [a \in Addr |-> IF a = 1 THEN h[c.val] ELSE Free], FALSE)

(* IsNull without the isSet test *)
IsNull_IgnoresIsSet(c) == ~IsNil(c) /\ c.val = NilPtr

IsNull(c) == ~IsNil(c) /\ c.val = NilPtr /\ c.isSet

(* IsUnset without the nil test, false where the code would fault *)
IsUnset_NoNilCheck(c) == ~IsNil(c) /\ ~c.isSet

IsUnset(c) == IsNil(c) \/ ~c.isSet

IsSet(c) == ~IsNil(c) /\ c.isSet

IsValue(c) == ~IsNil(c) /\ c.isSet /\ c.val # NilPtr

GetValue(c) == IF IsNil(c) THEN NilPtr ELSE c.val

(* Get, GetOr, MustGet and Ptr.  Get: [v, ok]; MustGet: [panic] or         *)
(* [panic, v]; Ptr: the pointer to the value or NilPtr                     *)
Get(c, h, T) ==
    IF IsValue(c) THEN [v |-> h[c.val], ok |-> TRUE] ELSE [v |-> ZeroOf(T), ok |-> FALSE]

GetOr(c, h, d) == IF IsValue(c) THEN h[c.val] ELSE d

MustGet(c, h) == IF IsValue(c) THEN [panic |-> FALSE, v |-> h[c.val]] ELSE [panic |-> TRUE]

Ptr(c) == IF IsValue(c) THEN c.val ELSE NilPtr

(* a mutator called through a nil pointer works on a fresh local container, *)
(* which the caller never sees                                              *)
Recv(c) == IF IsNil(c) THEN ZeroContainer ELSE c

SetValue(c, h, b) ==
    LET a == Alloc(h)
    IN Res([Recv(c) EXCEPT !.isSet = TRUE, !.val = a], [h EXCEPT ![a] = b], FALSE)

SetNull(c, h) == Res([Recv(c) EXCEPT !.isSet = TRUE, !.val = NilPtr], h, FALSE)

(* a nil pointer taken as "no change" *)
SetValueP_NilIgnored(c, h, ref) ==
    IF ref # <<>> THEN SetValue(Recv(c), h, ref[1]) ELSE Res(Recv(c), h, FALSE)

(* ref is <<>> (nil) or <<v>> *)
SetValueP(c, h, ref) ==
    IF ref # <<>> THEN SetValue(Recv(c), h, ref[1]) ELSE SetNull(Recv(c), h)

(* a value cleared one step at a time: Value to Null, Null to Unset *)
Unset_Demotes(c, h) ==
    IF IsValue(c) THEN Res([c EXCEPT !.val = NilPtr], h, FALSE)
    ELSE Res([Recv(c) EXCEPT !.isSet = FALSE, !.val = NilPtr], h, FALSE)

(* the container reset to its zero value, overrides included *)
Unset_ResetsOverrides(c, h) ==
    Res([Recv(c) EXCEPT !.isSet = FALSE, !.val = NilPtr,
                        !.marshalUnset = <<>>, !.scanNull = <<>>], h, FALSE)

Unset(c, h) == Res([Recv(c) EXCEPT !.isSet = FALSE, !.val = NilPtr], h, FALSE)

SetMarshalUnset(c, b) == IF IsNil(c) THEN c ELSE [c EXCEPT !.marshalUnset = <<b>>]

(* the package default consulted first *)
GetMarshalUnset_DefaultWins(c) == GetDefaultMarshalUnset

GetMarshalUnset(c) ==
    IF IsNil(c) \/ c.marshalUnset = <<>> THEN GetDefaultMarshalUnset ELSE c.marshalUnset[1]

(* one slot for both policies: setting one clears the other *)
SetScanNull_ClearsMarshalUnset(c, b) ==
    IF IsNil(c) THEN c ELSE [c EXCEPT !.scanNull = <<b>>, !.marshalUnset = <<>>]

SetScanNull(c, b) == IF IsNil(c) THEN c ELSE [c EXCEPT !.scanNull = <<b>>]

(* the default fixed at its initial value instead of read when needed *)
GetScanNull_FrozenDefault(c) ==
    IF IsNil(c) \/ c.scanNull = <<>> THEN ScanNullAsNull ELSE c.scanNull[1]

GetScanNull(c) ==
    IF IsNil(c) \/ c.scanNull = <<>> THEN GetDefaultScanNull ELSE c.scanNull[1]

(* the policy never consulted *)
IsZero_IgnoresPolicy(c) == IsUnset(c)

(* a Null container counted as zero too, as omitempty would a nil pointer *)
IsZero_NullToo(c) == (IsUnset(c) \/ IsNull(c)) /\ GetMarshalUnset(c) = UnsetSkip

IsZero(c) == IsUnset(c) /\ GetMarshalUnset(c) = UnsetSkip

(* the policy ignored *)
handleScanNull_AlwaysNull(c, h) == SetNull(c, h)

(* the branch of handleScanNull once GetScanNull has returned policy *)
handleScanNullWith(c, h, policy) ==
    IF policy = ScanNullAsUnset THEN Unset(c, h) ELSE SetNull(c, h)

handleScanNull(c, h) == handleScanNullWith(c, h, GetScanNull(c))

----------------------------------------------------------------------------
(* Driver values handed to Scan *)

DNil == [k |-> "nil"]
DInt(i) == [k |-> "int64", i |-> i]
DFloat(m) == [k |-> "float64", m |-> m]
DBool(b) == [k |-> "bool", b |-> b]
DStr(t) == [k |-> "string", s |-> t]
DBytes(t) == [k |-> "bytes", s |-> t]
DTime(t) == [k |-> "time", t |-> t]
DOther == [k |-> "other"]                    \* a struct{}{}: no driver.Value type

Ok(v) == [err |-> FALSE, v |-> v]
Fail == [err |-> TRUE]

(* strconv.FormatFloat(f, 'g', -1, 64) *)
FormatFloat(m) == IF m % 10 = 0 THEN Dec(m \div 10) ELSE Frac(m)

(* database/sql asString *)
asString(v) ==
    CASE v.k \in {"string", "bytes"} -> v.s
      [] v.k = "int64" -> Dec(v.i)
      [] v.k = "float64" -> FormatFloat(v.m)
      [] v.k = "bool" -> BoolLit(v.b)
      [] v.k = "time" -> GoTime(v.t)
      [] OTHER -> Braces

(* every width scanned through the 64-bit intermediate *)
InRange_AlwaysWide(T, i) == TRUE

InRange(T, i) ==
    CASE T = "int16" -> MinInt16 <= i /\ i <= MaxInt16
      [] T = "int32" -> -MaxInt32 - 1 <= i /\ i <= MaxInt32
      [] OTHER -> TRUE

(* strconv.ParseInt(s, 10, bits of T) *)
ParseInt(T, t) == IF t.f = "dec" /\ InRange(T, t.i) THEN Ok(t.i) ELSE Fail

(* strconv.ParseFloat(s, 64) *)
ParseFloat(t) ==
    CASE t.f = "dec" -> Ok(10 * t.i)
      [] t.f = "frac" -> Ok(t.m)
      [] OTHER -> Fail

(* strconv.ParseBool *)
ParseBool(t) ==
    CASE t.f = "bool" -> Ok(t.b)
      [] t.f = "dec" /\ t.i \in {0, 1} -> Ok(t.i = 1)
      [] OTHER -> Fail

(* uuid.Parse *)
ParseUUID(t) == IF t.f = "uuid" THEN Ok(UUIDV(t.u)) ELSE Fail

(* time.Parse(t, t): the text is used as its own layout.  A text without   *)
(* layout elements matches itself literally; the reference time is a       *)
(* layout that parses itself; a timestamp such as 2024-03-10T12:30:45Z,    *)
(* which RFC3339(t) stands for, read as a layout does not match itself     *)
(* (2 is a day element and takes 20, 02 is a day element and takes 24, 4   *)
(* is a minute element and meets the dash).                                *)
TimeParseSelf(t) ==
    CASE t.f \in {"empty", "word", "bool"} -> Ok(YearZeroV)
      [] t.f = "layout" -> Ok(RefTimeV)
      [] OTHER -> Fail

(* sql.NullString.Scan: [err, valid, v] *)
NullStringScan(v) ==
    CASE v.k = "nil" -> [err |-> FALSE, valid |-> FALSE, v |-> Empty]
      [] v.k = "time" -> [err |-> FALSE, valid |-> TRUE, v |-> RFC3339(v.t)]
      [] v.k = "other" -> [err |-> TRUE, valid |-> FALSE, v |-> Empty]
      [] OTHER -> [err |-> FALSE, valid |-> TRUE, v |-> asString(v)]

(* sql.NullInt16 / NullInt32 / NullInt64 .Scan, by the width of T *)
NullIntScan(T, v) ==
    IF v.k = "nil" THEN [err |-> FALSE, valid |-> FALSE, v |-> 0]
    ELSE LET r == ParseInt(T, asString(v))
         IN IF r.err THEN [err |-> TRUE, valid |-> FALSE, v |-> 0]
            ELSE [err |-> FALSE, valid |-> TRUE, v |-> r.v]

(* sql.NullFloat64.Scan *)
NullFloat64Scan(v) ==
    IF v.k = "nil" THEN [err |-> FALSE, valid |-> FALSE, v |-> 0]
    ELSE LET r == IF v.k = "float64" THEN Ok(v.m) ELSE ParseFloat(asString(v))
         IN IF r.err THEN [err |-> TRUE, valid |-> FALSE, v |-> 0]
            ELSE [err |-> FALSE, valid |-> TRUE, v |-> r.v]

(* sql.NullBool.Scan, through driver.Bool.ConvertValue *)
NullBoolScan(v) ==
    IF v.k = "nil" THEN [err |-> FALSE, valid |-> FALSE, v |-> FALSE]
    ELSE LET r == CASE v.k = "bool" -> Ok(v.b)
                    [] v.k \in {"string", "bytes"} -> ParseBool(v.s)
                    [] v.k = "int64" /\ v.i \in {0, 1} -> Ok(v.i = 1)
                    [] OTHER -> Fail
         IN IF r.err THEN [err |-> TRUE, valid |-> FALSE, v |-> FALSE]
            ELSE [err |-> FALSE, valid |-> TRUE, v |-> r.v]

----------------------------------------------------------------------------
(* nullable.go: the scan paths.  Each returns Res(container, heap, err).    *)

scanString(c, h, v) ==
    LET null == NullStringScan(v)
    IN IF null.err THEN Res(c, h, TRUE)
       ELSE IF null.valid THEN SetValue(c, h, StrV(null.v))
       ELSE handleScanNull(c, h)

scanUUID(c, h, v) ==
    LET null == NullStringScan(v)
    IN IF null.err THEN Res(c, h, TRUE)
       ELSE IF null.valid
            THEN LET uid == ParseUUID(null.v)
                 IN IF uid.err THEN Res(c, h, TRUE) ELSE SetValue(c, h, uid.v)
       ELSE handleScanNull(c, h)

(* the scanned field stored before the error is looked at *)
scanInt_StoresBeforeCheck(c, h, T, v) ==
    LET null == NullIntScan(T, v)
        stored == SetValue(c, h, IntV(null.v))
    IN IF null.err THEN Res(stored.c, stored.h, TRUE)
       ELSE IF null.valid THEN stored
       ELSE handleScanNull(c, h)

scanInt(c, h, T, v) ==
    LET null == NullIntScan(T, v)
    IN IF null.err THEN Res(c, h, TRUE)
       ELSE IF null.valid THEN SetValue(c, h, IntV(null.v))
       ELSE handleScanNull(c, h)

scanFloat(c, h, v) ==
    LET null == NullFloat64Scan(v)
    IN IF null.err THEN Res(c, h, TRUE)
       ELSE IF null.valid THEN SetValue(c, h, FloatV(null.v))
       ELSE handleScanNull(c, h)

scanBool(c, h, v) ==
    LET null == NullBoolScan(v)
    IN IF null.err THEN Res(c, h, TRUE)
       ELSE IF null.valid THEN SetValue(c, h, BoolV(null.v))
       ELSE handleScanNull(c, h)

(* the string case assigns null.Time only: null.Valid stays false *)
scanTime(c, h, v) ==
    IF v.k = "nil" THEN handleScanNull(c, h)
    ELSE LET parsed == TimeParseSelf(v.s)
             null == CASE v.k = "string" ->
                            IF parsed.err THEN [err |-> TRUE]
                            ELSE [err |-> FALSE, Valid |-> FALSE, Time |-> parsed.v]
                       [] v.k = "time" -> [err |-> FALSE, Valid |-> TRUE, Time |-> TimeV(v.t)]
                       [] OTHER -> [err |-> TRUE]
         IN IF null.err THEN Res(c, h, TRUE)
            ELSE IF null.Valid THEN SetValue(c, h, null.Time)
            ELSE handleScanNull(c, h)

(* the Scan method of the README's PhoneNumber, strings only *)
PhoneScan(v) == IF v.k = "string" THEN Ok(PhoneV(v.s)) ELSE Fail

UnmarshalField(old, tok) ==
    IF tok = <<>> \/ tok[1].f = "jnull" THEN Ok(old)
    ELSE IF tok[1].f = "dec" THEN Ok(tok[1].i)
    ELSE [err |-> TRUE, v |-> old]

(* json.Unmarshal(data, target) with *target = old: [err, v], v the target *)
(* after the call.  A syntax error is found before anything is stored; a   *)
(* JSON null stores nothing; a struct keeps the fields decoded before and  *)
(* after a field that fails; time.Time's UnmarshalJSON assigns the result  *)
(* of its parse, the zero time when the parse fails.                       *)
JSONUnmarshal(T, t, old) ==
    LET bad == [err |-> TRUE, v |-> old]
    IN CASE t.f \notin {"dec", "frac", "bool", "jnull", "jstr", "jobj"} -> bad
         [] t.f = "jnull" -> Ok(old)
         [] T \in IntTypes -> IF t.f = "dec" /\ InRange(T, t.i) THEN Ok(IntV(t.i)) ELSE bad
         [] T = "string" -> IF t.f = "jstr" THEN Ok(StrV(t.s)) ELSE bad
         [] T = "scanner" -> IF t.f = "jstr" THEN Ok(PhoneV(t.s)) ELSE bad
         [] T = "bool" -> IF t.f = "bool" THEN Ok(BoolV(t.b)) ELSE bad
         [] T = "float64" -> IF t.f \in {"dec", "frac"} THEN Ok(FloatV(ParseFloat(t).v)) ELSE bad
         [] T = "uuid" -> IF t.f = "jstr" /\ ~ParseUUID(t.s).err THEN ParseUUID(t.s) ELSE bad
         [] T = "time" -> IF t.f # "jstr" THEN bad
                          ELSE IF t.s.f = "rfc3339" THEN Ok(TimeV(t.s.t))
                          ELSE IF t.s.f = "layout" THEN Ok(RefTimeV)
                          ELSE [err |-> TRUE, v |-> TimeV(0)]
         [] T = "json" -> IF t.f = "jobj"
                          THEN LET a == UnmarshalField(old.a, t.a)
                                   b == UnmarshalField(old.b, t.b)
                               IN [err |-> a.err \/ b.err, v |-> ObjV(a.v, b.v)]
                          ELSE bad

scanJSON(c, h, T, v) ==
    LET null == NullStringScan(v)
    IN IF null.err THEN Res(c, h, TRUE)
       ELSE IF null.valid
            THEN LET value == IF T = "scanner" THEN PhoneScan(v)
                              ELSE JSONUnmarshal(T, null.v, ZeroOf(T))
                 IN IF value.err THEN Res(c, h, TRUE) ELSE SetValue(c, h, value.v)
       ELSE handleScanNull(c, h)

(* Of.Scan: dispatch on the declared type *)
Scan(c, h, T, v) ==
    CASE T = "string" -> scanString(Recv(c), h, v)
      [] T = "uuid" -> scanUUID(Recv(c), h, v)
      [] T \in IntTypes -> scanInt(Recv(c), h, T, v)
      [] T = "float64" -> scanFloat(Recv(c), h, v)
      [] T = "bool" -> scanBool(Recv(c), h, v)
      [] T = "time" -> scanTime(Recv(c), h, v)
      [] OTHER -> scanJSON(Recv(c), h, T, v)

----------------------------------------------------------------------------
(* Of.UnmarshalJSON and Of.Value *)

(* null marks the container set and keeps the pointer *)
UnmarshalJSON_NullKeepsVal(c, h, T, data) ==
    IF data = NilBytes \/ data = JNull(FALSE)
    THEN Res([Recv(c) EXCEPT !.isSet = TRUE], h, FALSE)
    ELSE LET c0 == Recv(c)
             a == IF c0.val = NilPtr THEN Alloc(h) ELSE c0.val
             h1 == IF c0.val = NilPtr THEN [h EXCEPT ![a] = ZeroOf(T)] ELSE h
             c1 == [c0 EXCEPT !.val = a]
             r == JSONUnmarshal(T, data, h1[a])
             h2 == [h1 EXCEPT ![a] = r.v]
         IN IF r.err THEN Res(c1, h2, TRUE)
            ELSE Res([c1 EXCEPT !.isSet = TRUE], h2, FALSE)

(* a successful decode that forgets to mark the container set *)
UnmarshalJSON_NeverSets(c, h, T, data) ==
    IF data = NilBytes \/ data = JNull(FALSE) THEN SetNull(Recv(c), h)
    ELSE LET c0 == Recv(c)
             a == IF c0.val = NilPtr THEN Alloc(h) ELSE c0.val
             h1 == IF c0.val = NilPtr THEN [h EXCEPT ![a] = ZeroOf(T)] ELSE h
             r == JSONUnmarshal(T, data, h1[a])
         IN Res([c0 EXCEPT !.val = a], [h1 EXCEPT ![a] = r.v], r.err)

(* null read as "nothing provided" *)
UnmarshalJSON_NullUnsets(c, h, T, data) ==
    IF data = NilBytes \/ data = JNull(FALSE) THEN Unset(Recv(c), h)
    ELSE LET c0 == Recv(c)
             a == IF c0.val = NilPtr THEN Alloc(h) ELSE c0.val
             h1 == IF c0.val = NilPtr THEN [h EXCEPT ![a] = ZeroOf(T)] ELSE h
             c1 == [c0 EXCEPT !.val = a]
             r == JSONUnmarshal(T, data, h1[a])
             h2 == [h1 EXCEPT ![a] = r.v]
         IN IF r.err THEN Res(c1, h2, TRUE)
            ELSE Res([c1 EXCEPT !.isSet = TRUE], h2, FALSE)

UnmarshalJSON(c, h, T, data) ==
    IF data = NilBytes \/ data = JNull(FALSE) THEN SetNull(Recv(c), h)
    ELSE LET c0 == Recv(c)
             a == IF c0.val = NilPtr THEN Alloc(h) ELSE c0.val
             h1 == IF c0.val = NilPtr THEN [h EXCEPT ![a] = ZeroOf(T)] ELSE h
             c1 == [c0 EXCEPT !.val = a]
             r == JSONUnmarshal(T, data, h1[a])
             h2 == [h1 EXCEPT ![a] = r.v]
         IN IF r.err THEN Res(c1, h2, TRUE)
            ELSE Res([c1 EXCEPT !.isSet = TRUE], h2, FALSE)

(* json.Marshal of the struct{A int; B int} *)
MarshalObj(o) == JObj(<<Dec(o.a)>>, <<Dec(o.b)>>)

(* the types the first case of the type switch of Of.Value lists *)
NativeTypes == {"string", "int16", "int32", "int", "int64", "float64", "bool", "time", "uuid"}

(* the types whose pointer is a driver.Valuer: the named string of the     *)
(* README, whose Value never fails, and a named int whose Value fails on 0 *)
ValuerTypes == {"scanner", "cents"}

(* every type a container is declared with here: those Scan is driven with *)
(* and two more that make the outbound conversion fail                      *)
ValueTypes == Types \cup {"cents", "box"}

(* the types whose pointer satisfies the interface JSON of the type switch: *)
(* the opaque category, open to every type                                 *)
JSON == ValueTypes

(* valuer.Value() of the wrapped type *)
ValuerValue(T, v) ==
    IF T = "scanner" THEN Ok(DStr(v.s))
    ELSE IF v.i = 0 THEN Fail ELSE Ok(DInt(v.i))

(* json.Marshal(value) of a type without Valuer: [err, v]; a channel has no *)
(* JSON form                                                                *)
MarshalOpaque(T, v) ==
    IF T = "box"
    THEN IF v.chan THEN Fail ELSE Ok(JBox(Dec(1)))
    ELSE Ok(MarshalObj(v))

(* the Valuer of the wrapped type is not looked for *)
Value_SkipsValuer(c, h, T) ==
    IF c.val = NilPtr THEN Ok(DNil)
    ELSE IF T \in NativeTypes THEN Ok(h[c.val])
    ELSE IF T = "scanner" THEN Ok(DStr(JStr(h[c.val].s)))
    ELSE IF T = "cents" THEN Ok(DStr(Dec(h[c.val].i)))
    ELSE LET b == MarshalOpaque(T, h[c.val])
         IN IF b.err THEN Fail ELSE Ok(DStr(b.v))

(* Of.Value: [err, v], v the driver value, DNil the storage NULL *)
Value(c, h, T) ==
    IF c.val = NilPtr THEN Ok(DNil)
    ELSE IF T \in NativeTypes THEN Ok(h[c.val])
    ELSE IF T \in JSON
         THEN IF T \in ValuerTypes
              THEN LET r == ValuerValue(T, h[c.val])
                   IN IF r.err THEN Fail ELSE Ok(r.v)
              ELSE LET b == MarshalOpaque(T, h[c.val])
                   IN IF b.err THEN Fail ELSE Ok(DStr(b.v))
    ELSE Fail

(* json.Marshal(value) for a value of the declared type: no envelope.  The *)
(* year-0 instant is never stored in a container and has no case here.     *)
JSONMarshal(T, v) ==
    CASE T \in IntTypes -> Dec(v.i)
      [] T = "string" -> JStr(v.s)
      [] T = "scanner" -> JStr(v.s)
      [] T = "bool" -> BoolLit(v.b)
      [] T = "float64" -> FormatFloat(v.m)
      [] T = "uuid" -> JStr(UUIDText(v.u))
      [] T = "time" -> IF v = RefTimeV THEN JStr(RefLayout) ELSE JStr(RFC3339(v.t))
      [] T = "json" -> MarshalObj(v)

(* the helper MarshalJSON hands a Value container to *)
marshalJSON(c, h, T) == Ok(JSONMarshal(T, h[GetValue(c)]))

(* an Unset container under UnsetSkip writes nothing *)
MarshalJSON_PolicyDependent(c, h, T) ==
    IF IsUnset(c) /\ GetMarshalUnset(c) = UnsetSkip THEN Ok(Empty)
    ELSE IF IsUnset(c) \/ IsNull(c) THEN Ok(JNull(FALSE))
    ELSE marshalJSON(c, h, T)

(* Of.MarshalJSON: [err, v], v the bytes *)
MarshalJSON(c, h, T) ==
    IF IsUnset(c) \/ IsNull(c) THEN Ok(JNull(FALSE)) ELSE marshalJSON(c, h, T)

(* json.Marshal of a struct with a field `json:"name,omitzero"` of type    *)
(* Of[T]: what the object holds for the key, <<>> when the key is left out *)
MarshalRecordField(c, h, T) ==
    IF IsZero(c) THEN <<>> ELSE <<MarshalJSON(c, h, T).v>>

(* json.Unmarshal of an object into that struct: the field's UnmarshalJSON *)
(* is called with the key's value, and not at all when tok = <<>>, the     *)
(* object lacking the key                                                  *)
UnmarshalRecordField(c, h, T, tok) ==
    IF tok = <<>> THEN Res(c, h, FALSE) ELSE UnmarshalJSON(c, h, T, tok[1])

----------------------------------------------------------------------------
(* Inputs *)

Hello == Word("hello")

Values(T) ==
    CASE T \in IntTypes -> {IntV(i) : i \in 0..SmallInt}
      [] T = "string" -> {StrV(Empty), StrV(Hello)}
      [] T = "uuid" -> {UUIDV(u) : u \in 0..SmallInt}
      [] T = "float64" -> {FloatV(0), FloatV(35)}
      [] T = "bool" -> {BoolV(TRUE), BoolV(FALSE)}
      [] T = "time" -> {TimeV(t) : t \in 0..SmallInt}
      [] T = "json" -> {ObjV(a, b) : a, b \in 0..SmallInt}
      [] T = "scanner" -> {PhoneV(Empty), PhoneV(Hello)}

IntInputs(T) ==
    IF T \in IntTypes
    THEN (0..SmallInt) \cup {MaxInt16, MaxInt16 + 1, MinInt16, MinInt16 - 1, 100000}
    ELSE {1}

(* texts whose parse as their own time layout is settled above *)
PlainTexts == {Empty, Hello, RefLayout, RFC3339(1)}

Texts(T) ==
    CASE T = "time" -> PlainTexts
      [] T = "json" -> {Hello, JObj(<<Dec(1)>>, <<Dec(1)>>), JObj(<<Dec(1)>>, <<JStr(Hello)>>)}
      [] T = "uuid" -> {Hello, UUIDText(1)}
      [] T = "bool" -> {Hello, BoolLit(TRUE), Dec(1)}
      [] OTHER -> {Hello, Dec(1), Dec(100000), Frac(35)}

ScanInputs(T) ==
    {DNil, DOther, DFloat(35), DFloat(10), DBool(TRUE), DTime(1)}
      \cup (IF T = "scanner" THEN {} ELSE {DInt(i) : i \in IntInputs(T)})
      \cup {DStr(t) : t \in Texts(T)}
      \cup {DBytes(Hello)}

ObjTexts ==
    {JObj(<<Dec(1)>>, <<Dec(1)>>), JObj(<<Dec(1)>>, <<>>), JObj(<<>>, <<Dec(1)>>),
     JObj(<<Dec(1)>>, <<JStr(Hello)>>), JObj(<<JStr(Hello)>>, <<Dec(1)>>)}

JSONInputs(T) ==
    {NilBytes, JNull(FALSE), JNull(TRUE), Hello, Dec(1), JStr(Hello)}
      \cup CASE T \in IntTypes -> {Dec(0), Dec(100000), Frac(35)}
             [] T = "float64" -> {Frac(35)}
             [] T = "bool" -> {BoolLit(TRUE)}
             [] T = "uuid" -> {JStr(UUIDText(1))}
             [] T = "time" -> {JStr(RFC3339(1))}
             [] T = "json" -> ObjTexts
             [] OTHER -> {JStr(Empty)}

(* what an object handed to json.Unmarshal holds for the key of n *)
RecordInputs == {<<>>, <<JNull(FALSE)>>, <<Dec(1)>>, <<JStr(Hello)>>}

----------------------------------------------------------------------------
(* The state machine: a program holding one container n of type Of[T] and   *)
(* calling its methods, through &n or through a nil *Of[T], and the package *)
(* configuration setters.                                                   *)

NoArg == [none |-> TRUE]

(* last keeps what the claims ask of the argument: whether it was the NULL  *)
(* of its domain (a nil driver value, nil bytes or the literal null) and,   *)
(* for a policy setter, the policy b as <<b>>                               *)
IsNullArg(arg) == arg \in {DNil, NilBytes, JNull(FALSE)}

PolicyArg(arg) == IF "policy" \in DOMAIN arg THEN <<arg.policy>> ELSE <<>>

Call(op, recv, arg, err) ==
    [op |-> op, recv |-> recv, null |-> IsNullArg(arg), b |-> PolicyArg(arg), err |-> err]

(* a constructor or setter given the value ref[1], or a nil *T when ref is *)
(* <<>>                                                                    *)
Given(op, ref) ==
    [op |-> op, recv |-> "n", null |-> FALSE, b |-> <<>>, err |-> FALSE, v |-> ref]

(* Unset and SetNull: again tells that the call before was the same call   *)
Repeated(op, again) ==
    [op |-> op, recv |-> "n", null |-> FALSE, b |-> <<>>, err |-> FALSE, again |-> again]

(* The overrides are the pointers *MarshalUnsetBehavior and                *)
(* *ScanNullBehavior.  The programs of one container keep them as <<>> or  *)
(* <<b>>, b the policy pointed to; the program of the override pointers    *)
(* below keeps them as <<>> or <<a>>, a the address of a cell, <<b>> when  *)
(* written and <<>> when free.                                             *)
PolicyAddr == 1..MaxCells

NoCells == [a \in PolicyAddr |-> <<>>]

(* configMu with no holder, and a goroutine outside every call.  A call    *)
(* of the sequential programs below takes and releases the lock within its *)
(* step.                                                                   *)
Procs == 1..NumProcs

Unlocked == [w |-> 0, r |-> {}]

Idle == [op |-> "idle", at |-> "idle", arg |-> NoArg, read |-> <<>>]

Init ==
    /\ typ \in Types
    /\ n = ZeroContainer
    /\ other = ZeroContainer
    /\ heap = [a \in Addr |-> Free]
    /\ defaultMarshalUnset = UnsetSkip
    /\ defaultScanNull = ScanNullAsNull
    /\ configMu = Unlocked
    /\ pc = [g \in Procs |-> Idle]
    /\ cells = NoCells
    /\ last = Call("new", "n", NoArg, FALSE)

(* the caller's view after a method call on n: the garbage of the call is  *)
(* reclaimed                                                               *)
Return(res) ==
    /\ n' = Collect(res.c, res.h).c
    /\ heap' = Collect(res.c, res.h).h

Config == <<defaultMarshalUnset, defaultScanNull>>

(* var n Of[T] / n = Of[T]{} *)
NewUnset ==
    /\ n' = ZeroContainer
    /\ heap' = Collect(ZeroContainer, heap).h
    /\ last' = Call("new", "n", NoArg, FALSE)
    /\ UNCHANGED <<typ, cells, configMu, pc, other, Config>>

(* a zero payload taken for "no value" *)
FromValue_ZeroIsNull(b) ==
    IF b \in {ZeroOf(T) : T \in Types} THEN SetNull(ZeroContainer, [a \in Addr |-> Free])
    ELSE SetValue(ZeroContainer, [a \in Addr |-> Free], b)

(* n = FromValue(b) *)
FromValue(b) == SetValue(ZeroContainer, [a \in Addr |-> Free], b)

CallFromValue ==
    \E b \in Values(typ) :
        /\ Return(FromValue(b))
        /\ last' = Given("FromValue", <<b>>)
        /\ UNCHANGED <<typ, cells, configMu, pc, other, Config>>

(* n = Null[T]() *)
Null == SetNull(ZeroContainer, [a \in Addr |-> Free])

CallNull ==
    /\ Return(Null)
    /\ last' = Call("Null", "n", NoArg, FALSE)
    /\ UNCHANGED <<typ, cells, configMu, pc, other, Config>>

CallSetValue ==
    \E b \in Values(typ) :
        /\ Return(SetValue(n, heap, b))
        /\ last' = Given("SetValue", <<b>>)
        /\ UNCHANGED <<typ, cells, configMu, pc, other, Config>>

CallSetValueP ==
    \E ref \in {<<>>} \cup {<<b>> : b \in Values(typ)} :
        /\ Return(SetValueP(n, heap, ref))
        /\ last' = Given("SetValueP", ref)
        /\ UNCHANGED <<typ, cells, configMu, pc, other, Config>>

CallSetNull ==
    /\ Return(SetNull(n, heap))
    /\ last' = Repeated("SetNull", last.op = "SetNull" /\ last.recv = "n")
    /\ UNCHANGED <<typ, cells, configMu, pc, other, Config>>

CallUnset ==
    /\ Return(Unset(n, heap))
    /\ last' = Repeated("Unset", last.op = "Unset" /\ last.recv = "n")
    /\ UNCHANGED <<typ, cells, configMu, pc, other, Config>>

CallSetMarshalUnset ==
    \E b \in MarshalUnsetBehavior :
        /\ n' = SetMarshalUnset(n, b)
        /\ last' = Call("SetMarshalUnset", "n", [policy |-> b], FALSE)
        /\ UNCHANGED <<typ, cells, configMu, pc, other, heap, Config>>

CallSetScanNull ==
    \E b \in ScanNullBehavior :
        /\ n' = SetScanNull(n, b)
        /\ last' = Call("SetScanNull", "n", [policy |-> b], FALSE)
        /\ UNCHANGED <<typ, cells, configMu, pc, other, heap, Config>>

CallUnmarshalJSON ==
    \E data \in JSONInputs(typ) :
        LET res == UnmarshalJSON(n, heap, typ, data)
        IN /\ Return(res)
           /\ last' = Call("UnmarshalJSON", "n", data, res.err)
           /\ UNCHANGED <<typ, cells, configMu, pc, other, Config>>

(* last keeps of a scanned driver value whether it was NULL and, of an     *)
(* integer, the integer as <<i>>                                           *)
Scanned(v, err) ==
    [op |-> "Scan", recv |-> "n", null |-> IsNullArg(v), b |-> <<>>, err |-> err,
     int |-> IF v.k = "int64" THEN <<v.i>> ELSE <<>>]

CallScan ==
    \E v \in ScanInputs(typ) :
        LET res == Scan(n, heap, typ, v)
        IN /\ Return(res)
           /\ last' = Scanned(v, res.err)
           /\ UNCHANGED <<typ, cells, configMu, pc, other, Config>>

(* the two read-only hooks of encoding/json: the state stays, last keeps   *)
(* what came back                                                          *)
Returned(op, out, err) ==
    [op |-> op, recv |-> "n", null |-> FALSE, b |-> <<>>, err |-> err, out |-> out]

CallMarshalJSON ==
    LET res == MarshalJSON(n, heap, typ)
    IN /\ last' = Returned("MarshalJSON", res.v, res.err)
       /\ UNCHANGED <<typ, cells, configMu, pc, other, n, heap, Config>>

CallIsZero ==
    /\ last' = Returned("IsZero", IsZero(n), FALSE)
    /\ UNCHANGED <<typ, cells, configMu, pc, other, n, heap, Config>>

(* n as a field of a struct: json.Marshal of the struct and json.Unmarshal *)
(* of an object into it                                                    *)
CallMarshalRecord ==
    /\ last' = Returned("json.Marshal", MarshalRecordField(n, heap, typ), FALSE)
    /\ UNCHANGED <<typ, cells, configMu, pc, other, n, heap, Config>>

CallUnmarshalRecord ==
    \E tok \in RecordInputs :
        LET res == UnmarshalRecordField(n, heap, typ, tok)
        IN /\ Return(res)
           /\ last' = [op |-> "json.Unmarshal", recv |-> "n",
                       null |-> tok = <<JNull(FALSE)>>, b |-> <<>>,
                       err |-> res.err, absent |-> tok = <<>>]
           /\ UNCHANGED <<typ, cells, configMu, pc, other, Config>>

(* a method called through a nil *Of[T]: the mutators work on a container  *)
(* of their own, so the caller's n and the caller's pointer stay as they   *)
(* were; only the error comes back                                         *)
NilCalls ==
    {[op |-> "SetValue", arg |-> ZeroOf(typ)], [op |-> "SetValueP", arg |-> NoArg],
     [op |-> "SetNull", arg |-> NoArg], [op |-> "Unset", arg |-> NoArg],
     [op |-> "SetMarshalUnset", arg |-> [policy |-> UnsetNull]],
     [op |-> "SetScanNull", arg |-> [policy |-> ScanNullAsUnset]],
     [op |-> "UnmarshalJSON", arg |-> JNull(FALSE)], [op |-> "UnmarshalJSON", arg |-> Hello],
     [op |-> "Scan", arg |-> DNil], [op |-> "Scan", arg |-> DOther]}

CallThroughNil ==
    \E call \in NilCalls :
        LET err == CASE call.op = "SetValue" -> SetValue(NilOf, heap, call.arg).err
                     [] call.op = "SetValueP" -> SetValueP(NilOf, heap, <<>>).err
                     [] call.op = "SetNull" -> SetNull(NilOf, heap).err
                     [] call.op = "Unset" -> Unset(NilOf, heap).err
                     [] call.op = "SetMarshalUnset" -> ~IsNil(SetMarshalUnset(NilOf, call.arg.policy))
                     [] call.op = "SetScanNull" -> ~IsNil(SetScanNull(NilOf, call.arg.policy))
                     [] call.op = "UnmarshalJSON" -> UnmarshalJSON(NilOf, heap, typ, call.arg).err
                     [] call.op = "Scan" -> Scan(NilOf, heap, typ, call.arg).err
        IN /\ last' = Call(call.op, "nil", call.arg, err)
           /\ UNCHANGED <<typ, cells, configMu, pc, other, n, heap, Config>>

SetDefaultMarshalUnset ==
    \E b \in MarshalUnsetBehavior :
        /\ defaultMarshalUnset' = b
        /\ last' = Call("SetDefaultMarshalUnset", "n", [policy |-> b], FALSE)
        /\ UNCHANGED <<typ, cells, configMu, pc, other, n, heap, defaultScanNull>>

SetDefaultScanNull ==
    \E b \in ScanNullBehavior :
        /\ defaultScanNull' = b
        /\ last' = Call("SetDefaultScanNull", "n", [policy |-> b], FALSE)
        /\ UNCHANGED <<typ, cells, configMu, pc, other, n, heap, defaultMarshalUnset>>

Next ==
    \/ NewUnset
    \/ CallFromValue
    \/ CallNull
    \/ CallSetValue
    \/ CallSetValueP
    \/ CallSetNull
    \/ CallUnset
    \/ CallSetMarshalUnset
    \/ CallSetScanNull
    \/ CallUnmarshalJSON
    \/ CallScan
    \/ CallMarshalJSON
    \/ CallIsZero
    \/ CallMarshalRecord
    \/ CallUnmarshalRecord
    \/ CallThroughNil
    \/ SetDefaultMarshalUnset
    \/ SetDefaultScanNull

Spec == Init /\ [][Next]_vars

----------------------------------------------------------------------------
(* Copies: a program holding two containers n and other, assigning to     *)
(* other a copy of n (other = n, other = Filter(n, predicate), other =     *)
(* Or(..., n)) and calling the mutators of either.  A copy of the struct   *)
(* copies the pointer val.                                                 *)

(* a rejected value answered with the zero container *)
Filter_RejectedIsUnset(c, h, P) ==
    IF IsUnset(c) THEN [c |-> ZeroContainer, calls |-> 0]
    ELSE IF IsNull(c) THEN [c |-> Null.c, calls |-> 0]
    ELSE IF h[c.val] \in P THEN [c |-> c, calls |-> 1]
    ELSE [c |-> ZeroContainer, calls |-> 1]

(* the container handed back with the overrides of the source, also when  *)
(* the source is Unset or Null                                             *)
Filter_KeepsOverrides(c, h, P) ==
    IF IsUnset(c) THEN [c |-> [c EXCEPT !.val = NilPtr], calls |-> 0]
    ELSE IF IsNull(c) THEN [c |-> c, calls |-> 0]
    ELSE IF h[c.val] \in P THEN [c |-> c, calls |-> 1]
    ELSE [c |-> [c EXCEPT !.val = NilPtr], calls |-> 1]

(* Filter: [c, calls], c the container returned and calls the number of    *)
(* times the predicate was called; the predicate is the set P of the       *)
(* values it accepts                                                       *)
Filter(c, h, P) ==
    IF IsUnset(c) THEN [c |-> ZeroContainer, calls |-> 0]
    ELSE IF IsNull(c) THEN [c |-> Null.c, calls |-> 0]
    ELSE IF h[c.val] \in P THEN [c |-> c, calls |-> 1]
    ELSE [c |-> Null.c, calls |-> 1]

(* the last Value argument instead of the first *)
Or_Rightmost(values) ==
    IF \E i \in DOMAIN values : IsValue(values[i])
    THEN values[CHOOSE i \in DOMAIN values :
                    IsValue(values[i]) /\ \A j \in DOMAIN values : j > i => ~IsValue(values[j])]
    ELSE Null.c

Or(values) ==
    IF \E i \in DOMAIN values : IsValue(values[i])
    THEN values[CHOOSE i \in DOMAIN values :
                    IsValue(values[i]) /\ \A j \in 1..(i - 1) : ~IsValue(values[j])]
    ELSE Null.c

(* Collect for two containers: the cell of cn is renamed to the first      *)
(* address and the cell of cm, when it is another one, to the next         *)
Collect2(cn, cm, h) ==
    LET an == IF cn.val = NilPtr THEN NilPtr ELSE 1
        am == IF cm.val = NilPtr THEN NilPtr
              ELSE IF cm.val = cn.val THEN 1
              ELSE IF cn.val = NilPtr THEN 1 ELSE 2
    IN [n |-> [cn EXCEPT !.val = an],
        other |-> [cm EXCEPT !.val = am],
        h |-> [a \in Addr |-> IF a = an THEN h[cn.val]
                              ELSE IF a = am THEN h[cm.val]
                              ELSE Free]]

Copied(c) ==
    /\ n' = Collect2(n, c, heap).n
    /\ other' = Collect2(n, c, heap).other
    /\ heap' = Collect2(n, c, heap).h

(* other = n *)
CopyAssign ==
    /\ Copied(n)
    /\ last' = Call("assign", "other", NoArg, FALSE)
    /\ UNCHANGED <<typ, cells, configMu, pc, Config>>

(* other = Filter(n, predicate), the predicate accepting every value or   *)
(* none                                                                    *)
CopyFilter ==
    \E P \in {Values(typ), {}} :
        /\ Copied(Filter(n, heap, P).c)
        /\ last' = Call("Filter", "other", NoArg, FALSE)
        /\ UNCHANGED <<typ, cells, configMu, pc, Config>>

(* other = Or(Of[T]{}, Null[T](), n) *)
CopyOr ==
    /\ Copied(Or(<<ZeroContainer, Null.c, n>>))
    /\ last' = Call("Or", "other", NoArg, FALSE)
    /\ UNCHANGED <<typ, cells, configMu, pc, Config>>

(* a mutator called on &n (to = "n") or on &other (to = "other") *)
Receiver(to) == IF to = "n" THEN n ELSE other

Returned2(to, res) ==
    LET g == Collect2(IF to = "n" THEN res.c ELSE n, IF to = "other" THEN res.c ELSE other, res.h)
    IN n' = g.n /\ other' = g.other /\ heap' = g.h

EitherSetValue ==
    \E to \in {"n", "other"}, b \in Values(typ) :
        /\ Returned2(to, SetValue(Receiver(to), heap, b))
        /\ last' = Call("SetValue", to, b, FALSE)
        /\ UNCHANGED <<typ, cells, configMu, pc, Config>>

EitherSetValueP ==
    \E to \in {"n", "other"}, ref \in {<<>>} \cup {<<b>> : b \in Values(typ)} :
        /\ Returned2(to, SetValueP(Receiver(to), heap, ref))
        /\ last' = Call("SetValueP", to, NoArg, FALSE)
        /\ UNCHANGED <<typ, cells, configMu, pc, Config>>

EitherSetNull ==
    \E to \in {"n", "other"} :
        /\ Returned2(to, SetNull(Receiver(to), heap))
        /\ last' = Call("SetNull", to, NoArg, FALSE)
        /\ UNCHANGED <<typ, cells, configMu, pc, Config>>

EitherUnset ==
    \E to \in {"n", "other"} :
        /\ Returned2(to, Unset(Receiver(to), heap))
        /\ last' = Call("Unset", to, NoArg, FALSE)
        /\ UNCHANGED <<typ, cells, configMu, pc, Config>>

EitherScan ==
    \E to \in {"n", "other"}, v \in ScanInputs(typ) :
        LET res == Scan(Receiver(to), heap, typ, v)
        IN /\ Returned2(to, res)
           /\ last' = Call("Scan", to, v, res.err)
           /\ UNCHANGED <<typ, cells, configMu, pc, Config>>

EitherUnmarshalJSON ==
    \E to \in {"n", "other"}, data \in JSONInputs(typ) :
        LET res == UnmarshalJSON(Receiver(to), heap, typ, data)
        IN /\ Returned2(to, res)
           /\ last' = Call("UnmarshalJSON", to, data, res.err)
           /\ UNCHANGED <<typ, cells, configMu, pc, Config>>

NextCopy ==
    \/ CopyAssign
    \/ CopyFilter
    \/ CopyOr
    \/ EitherSetValue
    \/ EitherSetValueP
    \/ EitherSetNull
    \/ EitherUnset
    \/ EitherScan
    \/ EitherUnmarshalJSON

SpecCopy == Init /\ [][NextCopy]_vars

----------------------------------------------------------------------------
(* Reads: a program constructing and setting n as above and calling the    *)
(* read accessors, through &n or through a nil *Of[T].                     *)

ReadCalls ==
    {"IsUnset", "IsNull", "IsSet", "IsValue", "GetValue", "Get", "GetOr", "MustGet", "Ptr",
     "GetMarshalUnset", "GetScanNull"}

(* what the caller finds behind a pointer an accessor returned: <<>> for   *)
(* nil, <<v>> for a pointer to v                                           *)
Deref(a, h) == IF a = NilPtr THEN <<>> ELSE <<h[a]>>

(* what accessor op returns on c; d is the default handed to GetOr *)
Read(op, c, h, T, d) ==
    CASE op = "IsUnset" -> IsUnset(c)
      [] op = "IsNull" -> IsNull(c)
      [] op = "IsSet" -> IsSet(c)
      [] op = "IsValue" -> IsValue(c)
      [] op = "GetValue" -> Deref(GetValue(c), h)
      [] op = "Get" -> Get(c, h, T)
      [] op = "GetOr" -> GetOr(c, h, d)
      [] op = "MustGet" -> MustGet(c, h)
      [] op = "Ptr" -> Deref(Ptr(c), h)
      [] op = "GetMarshalUnset" -> GetMarshalUnset(c)
      [] op = "GetScanNull" -> GetScanNull(c)

(* the defaults handed to GetOr: a value a container of T can hold *)
Defaults(T) == {ZeroOf(T)} \cup {CHOOSE b \in Values(T) : b # ZeroOf(T)}

CallRead ==
    \E op \in ReadCalls, recv \in {"n", "nil"} :
      \E d \in IF op = "GetOr" THEN Defaults(typ) ELSE {ZeroOf(typ)} :
        /\ last' = [op |-> op, recv |-> recv, null |-> FALSE, b |-> <<>>, err |-> FALSE,
                    d |-> d,
                    out |-> Read(op, IF recv = "n" THEN n ELSE NilOf, heap, typ, d)]
        /\ UNCHANGED <<typ, cells, configMu, pc, n, other, heap, Config>>

NextRead ==
    \/ NewUnset
    \/ CallFromValue
    \/ CallNull
    \/ CallSetNull
    \/ CallUnset
    \/ CallSetMarshalUnset
    \/ CallSetScanNull
    \/ CallUnmarshalJSON
    \/ SetDefaultMarshalUnset
    \/ SetDefaultScanNull
    \/ CallRead

SpecRead == Init /\ [][NextRead]_vars

----------------------------------------------------------------------------
(* Combinators: a program holding n and assigning to other what Map,       *)
(* FlatMap, Filter, Or, FromPtr and FromBool return.  The functions handed *)
(* in are named; Apply, ApplyFlat and Accepted say what each does.         *)

Fns == {"id", "iszero"}

Apply(fn, T, v) ==
    CASE fn = "id" -> v
      [] fn = "iszero" -> BoolV(v = ZeroOf(T))

(* functions returning a container: always unset, always null, the value   *)
(* wrapped, the value wrapped unless it is zero, and the value wrapped in  *)
(* a container with an override                                            *)
FlatFns == {"unset", "null", "wrap", "nonzero", "tagged"}

ApplyFlat(fn, T, h, v) ==
    CASE fn = "unset" -> Res(ZeroContainer, h, FALSE)
      [] fn = "null" -> Res(Null.c, h, FALSE)
      [] fn = "wrap" -> SetValue(ZeroContainer, h, v)
      [] fn = "nonzero" -> IF v = ZeroOf(T) THEN Res(Null.c, h, FALSE)
                           ELSE SetValue(ZeroContainer, h, v)
      [] fn = "tagged" -> Res(SetMarshalUnset(SetValue(ZeroContainer, h, v).c, UnsetNull),
                              SetValue(ZeroContainer, h, v).h, FALSE)

(* predicates, as the sets of values they accept *)
Preds(T) == {Values(T), {}, Values(T) \ {ZeroOf(T)}}

(* a result with the number of times the caller's function was called *)
Ran(res, calls) == [c |-> res.c, h |-> res.h, err |-> res.err, calls |-> calls]

(* a Null source answered with the zero container *)
Map_NullBecomesUnset(c, h, T, fn) ==
    IF IsUnset(c) \/ IsNull(c) THEN Ran(Res(ZeroContainer, h, FALSE), 0)
    ELSE Ran(SetValue(ZeroContainer, h, Apply(fn, T, h[c.val])), 1)

(* the function called on the zero value for a source without value, and  *)
(* its result dropped                                                      *)
Map_CallsAnyway(c, h, T, fn) ==
    IF IsUnset(c) THEN Ran(Res(ZeroContainer, h, FALSE), 1)
    ELSE IF IsNull(c) THEN Ran(Res(Null.c, h, FALSE), 1)
    ELSE Ran(SetValue(ZeroContainer, h, Apply(fn, T, h[c.val])), 1)

(* Map: the FromValue of the result allocates in h *)
Map(c, h, T, fn) ==
    IF IsUnset(c) THEN Ran(Res(ZeroContainer, h, FALSE), 0)
    ELSE IF IsNull(c) THEN Ran(Res(Null.c, h, FALSE), 0)
    ELSE Ran(SetValue(ZeroContainer, h, Apply(fn, T, h[c.val])), 1)

(* only Null answered with the default, Unset read as the zero value *)
MapOr_UnsetIsZero(c, h, T, defaultValue, fn) ==
    IF IsNull(c) THEN [v |-> defaultValue, calls |-> 0]
    ELSE IF IsUnset(c) THEN [v |-> Apply(fn, T, ZeroOf(T)), calls |-> 1]
    ELSE [v |-> Apply(fn, T, h[c.val]), calls |-> 1]

(* MapOr: [v, calls], v the value returned *)
MapOr(c, h, T, defaultValue, fn) ==
    IF IsUnset(c) \/ IsNull(c) THEN [v |-> defaultValue, calls |-> 0]
    ELSE [v |-> Apply(fn, T, h[c.val]), calls |-> 1]

(* an Unset result of the callee turned into Null *)
FlatMap_NeverUnset(c, h, T, fn) ==
    IF IsUnset(c) THEN Ran(Res(ZeroContainer, h, FALSE), 0)
    ELSE IF IsNull(c) \/ IsUnset(ApplyFlat(fn, T, h, h[c.val]).c) THEN Ran(Res(Null.c, h, FALSE), 0)
    ELSE Ran(ApplyFlat(fn, T, h, h[c.val]), 1)

FlatMap(c, h, T, fn) ==
    IF IsUnset(c) THEN Ran(Res(ZeroContainer, h, FALSE), 0)
    ELSE IF IsNull(c) THEN Ran(Res(Null.c, h, FALSE), 0)
    ELSE Ran(ApplyFlat(fn, T, h, h[c.val]), 1)

(* ptr is <<>> (nil) or <<v>> *)
FromPtr(h, ptr) ==
    IF ptr = <<>> THEN Res(Null.c, h, FALSE) ELSE SetValue(ZeroContainer, h, ptr[1])

(* a false flag answered with the zero container *)
FromBool_FalseIsUnset(h, value, ok) ==
    IF ok THEN SetValue(ZeroContainer, h, value) ELSE Res(ZeroContainer, h, FALSE)

FromBool(h, value, ok) ==
    IF ok THEN SetValue(ZeroContainer, h, value) ELSE Res(Null.c, h, FALSE)

(* other = the container of res *)
Assigned(res) ==
    /\ n' = Collect2(n, res.c, res.h).n
    /\ other' = Collect2(n, res.c, res.h).other
    /\ heap' = Collect2(n, res.c, res.h).h

(* n = the container of res, other and its value staying *)
Built(res) ==
    /\ n' = Collect2(res.c, other, res.h).n
    /\ other' = Collect2(res.c, other, res.h).other
    /\ heap' = Collect2(res.c, other, res.h).h

(* n = Of[T]{} *)
BuildUnset ==
    /\ Built(Res(ZeroContainer, heap, FALSE))
    /\ last' = Call("new", "n", NoArg, FALSE)
    /\ UNCHANGED <<typ, cells, configMu, pc, Config>>

(* n = FromValue(b) *)
BuildFromValue ==
    \E b \in Values(typ) :
        /\ Built(SetValue(ZeroContainer, heap, b))
        /\ last' = Given("FromValue", <<b>>)
        /\ UNCHANGED <<typ, cells, configMu, pc, Config>>

(* n = Null[T]() *)
BuildNull ==
    /\ Built(SetNull(ZeroContainer, heap))
    /\ last' = Call("Null", "n", NoArg, FALSE)
    /\ UNCHANGED <<typ, cells, configMu, pc, Config>>

(* what last keeps of a combinator call: its name and, in the record arg,  *)
(* the functions, values and arguments handed in                           *)
Combined(op, arg) ==
    [op |-> op, recv |-> "other", null |-> FALSE, b |-> <<>>, err |-> FALSE, arg |-> arg]

CallMap ==
    \E fn \in Fns :
        /\ Assigned(Map(n, heap, typ, fn))
        /\ last' = Combined("Map", [fn |-> fn])
        /\ UNCHANGED <<typ, cells, configMu, pc, Config>>

(* other = Map(Filter(n, predicate), fn) *)
CallMapFilter ==
    \E P \in Preds(typ), fn \in Fns :
        /\ Assigned(Map(Filter(n, heap, P).c, heap, typ, fn))
        /\ last' = Combined("MapFilter", [P |-> P, fn |-> fn])
        /\ UNCHANGED <<typ, cells, configMu, pc, Config>>

CallMapOr ==
    \E fn \in Fns, d \in {BoolV(TRUE), ZeroOf(typ)} :
        /\ last' = [op |-> "MapOr", recv |-> "n", null |-> FALSE, b |-> <<>>, err |-> FALSE,
                    arg |-> [fn |-> fn, d |-> d], out |-> MapOr(n, heap, typ, d, fn).v]
        /\ UNCHANGED <<typ, cells, configMu, pc, n, other, heap, Config>>

CallFlatMap ==
    \E fn \in FlatFns :
        /\ Assigned(FlatMap(n, heap, typ, fn))
        /\ last' = Combined("FlatMap", [fn |-> fn])
        /\ UNCHANGED <<typ, cells, configMu, pc, Config>>

CallFilter ==
    \E P \in Preds(typ) :
        /\ Assigned(Res(Filter(n, heap, P).c, heap, FALSE))
        /\ last' = Combined("Filter", [P |-> P])
        /\ UNCHANGED <<typ, cells, configMu, pc, Config>>

(* the arguments of Or: Of[T]{}, Null[T](), n or other *)
OrArgs == UNION {[1..k -> {"unset", "null", "n", "other"}] : k \in 0..MaxArgs}

Arg(tag) ==
    CASE tag = "unset" -> ZeroContainer
      [] tag = "null" -> Null.c
      [] tag = "n" -> n
      [] tag = "other" -> other

CallOr ==
    \E args \in OrArgs :
        /\ Assigned(Res(Or([i \in DOMAIN args |-> Arg(args[i])]), heap, FALSE))
        /\ last' = Combined("Or", [args |-> args])
        /\ UNCHANGED <<typ, cells, configMu, pc, Config>>

CallFromPtr ==
    \E ptr \in {<<>>} \cup {<<v>> : v \in Values(typ)} :
        /\ Assigned(FromPtr(heap, ptr))
        /\ last' = Combined("FromPtr", [ptr |-> ptr])
        /\ UNCHANGED <<typ, cells, configMu, pc, Config>>

CallFromBool ==
    \E value \in Values(typ), ok \in BOOLEAN :
        /\ Assigned(FromBool(heap, value, ok))
        /\ last' = Combined("FromBool", [value |-> value, ok |-> ok])
        /\ UNCHANGED <<typ, cells, configMu, pc, Config>>

NextCombine ==
    \/ BuildUnset
    \/ BuildFromValue
    \/ BuildNull
    \/ CallMap
    \/ CallMapFilter
    \/ CallMapOr
    \/ CallFlatMap
    \/ CallFilter
    \/ CallOr
    \/ CallFromPtr
    \/ CallFromBool

SpecCombine == Init /\ [][NextCombine]_vars

----------------------------------------------------------------------------
(* The outbound conversion: a program that builds a container of any of the *)
(* declared types and hands it to the storage driver, which calls Value.    *)

ValuesOf(T) ==
    CASE T = "cents" -> {CentsV(0), CentsV(1)}
      [] T = "box" -> {BoxV(FALSE), BoxV(TRUE)}
      [] OTHER -> Values(T)

InitValue ==
    /\ typ \in ValueTypes
    /\ n = ZeroContainer
    /\ other = ZeroContainer
    /\ heap = [a \in Addr |-> Free]
    /\ defaultMarshalUnset = UnsetSkip
    /\ defaultScanNull = ScanNullAsNull
    /\ configMu = Unlocked
    /\ pc = [g \in Procs |-> Idle]
    /\ cells = NoCells
    /\ last = Call("new", "n", NoArg, FALSE)

(* n = FromValue(b) for the wider set of types *)
CallFromValueOf ==
    \E b \in ValuesOf(typ) :
        /\ Return(FromValue(b))
        /\ last' = Given("FromValue", <<b>>)
        /\ UNCHANGED <<typ, cells, configMu, pc, other, Config>>

(* n.Value(): a value receiver, the container stays *)
CallValue ==
    LET res == Value(n, heap, typ)
    IN /\ last' = Returned("Value", res, res.err)
       /\ UNCHANGED <<typ, cells, configMu, pc, other, n, heap, Config>>

NextValue ==
    \/ NewUnset
    \/ CallFromValueOf
    \/ CallNull
    \/ CallSetNull
    \/ CallUnset
    \/ CallValue

SpecValue == InitValue /\ [][NextValue]_vars

----------------------------------------------------------------------------
(* Goroutines: NumProcs goroutines call the four configuration functions,   *)
(* each call a sequence of steps around configMu.  The first goroutine owns *)
(* the container n and also calls its codec methods, those that consult a   *)
(* package default stepping through the getter they call.                   *)

Owner == 1

(* sync.RWMutex: Lock waits for the writer and the readers to leave, RLock *)
(* for the writer                                                          *)
CanLock_IgnoresReaders(mu) == mu.w = 0

CanLock(mu) == mu.w = 0 /\ mu.r = {}

CanRLock(mu) == mu.w = 0

HoldsMu(g) == configMu.w = g \/ g \in configMu.r

Setters == {"SetDefaultMarshalUnset", "SetDefaultScanNull"}
Getters == {"GetDefaultMarshalUnset", "GetDefaultScanNull"}

ConfigCalls ==
    {[op |-> "SetDefaultMarshalUnset", arg |-> [policy |-> b]] : b \in MarshalUnsetBehavior}
      \cup {[op |-> "SetDefaultScanNull", arg |-> [policy |-> b]] : b \in ScanNullBehavior}
      \cup {[op |-> g, arg |-> NoArg] : g \in Getters}

(* the codec methods and, to reach both branches of the policy getters,   *)
(* the two override setters                                                *)
CodecCalls ==
    {[op |-> o, arg |-> NoArg] : o \in {"IsZero", "Value", "MarshalJSON"}}
      \cup {[op |-> "Scan", arg |-> v] : v \in {DNil, DStr(Hello)}}
      \cup {[op |-> "UnmarshalJSON", arg |-> data] : data \in {JNull(FALSE), JStr(Hello)}}
      \cup {[op |-> "SetMarshalUnset", arg |-> [policy |-> UnsetNull]],
            [op |-> "SetScanNull", arg |-> [policy |-> ScanNullAsUnset]]}

Calls(g) == IF g = Owner THEN ConfigCalls \cup CodecCalls ELSE ConfigCalls

(* the first step of a call *)
Entry(op) ==
    CASE op \in Setters -> "Lock"
      [] op \in Getters -> "RLock"
      [] op = "IsZero" -> "test"
      [] op = "Scan" -> "dispatch"
      [] OTHER -> "run"

(* the deferred RUnlock of the getter left to the return of its caller *)
Follows_UnlockOnReturn(op, at) ==
    CASE at = "Lock" -> "write"
      [] at = "write" -> "Unlock"
      [] at = "RLock" -> "read"
      [] at = "read" -> (CASE op = "IsZero" -> "compare" [] op = "Scan" -> "mutate" [] OTHER -> "RUnlock")
      [] at \in {"compare", "mutate"} -> "RUnlock"
      [] OTHER -> "idle"

(* the step that follows step at in a call of op: the deferred Unlock and  *)
(* RUnlock run when the setter or getter returns, before its caller goes on *)
Follows(op, at) ==
    CASE at = "Lock" -> "write"
      [] at = "write" -> "Unlock"
      [] at = "RLock" -> "read"
      [] at = "read" -> "RUnlock"
      [] at = "RUnlock" -> (CASE op = "IsZero" -> "compare" [] op = "Scan" -> "mutate" [] OTHER -> "idle")
      [] OTHER -> "idle"

At(g, at) == pc[g].at = at

(* goroutine g moves on, keeping what it read *)
Step(g) ==
    LET next == Follows(pc[g].op, pc[g].at)
    IN pc' = [pc EXCEPT ![g] = IF next = "idle" THEN Idle ELSE [@ EXCEPT !.at = next]]

Goto(g, at, read) == pc' = [pc EXCEPT ![g] = [@ EXCEPT !.at = at, !.read = read]]

Begin(g) ==
    /\ At(g, "idle")
    /\ \E call \in Calls(g) :
         pc' = [pc EXCEPT ![g] = [op |-> call.op, at |-> Entry(call.op), arg |-> call.arg, read |-> <<>>]]
    /\ UNCHANGED <<typ, cells, n, other, heap, Config, configMu, last>>

Lock(g) ==
    /\ At(g, "Lock")
    /\ CanLock(configMu)
    /\ configMu' = [configMu EXCEPT !.w = g]
    /\ Step(g)
    /\ UNCHANGED <<typ, cells, n, other, heap, Config, last>>

(* defaultMarshalUnset = b / defaultScanNull = b *)
WriteDefault(g) ==
    /\ At(g, "write")
    /\ IF pc[g].op = "SetDefaultMarshalUnset"
       THEN defaultMarshalUnset' = pc[g].arg.policy /\ UNCHANGED defaultScanNull
       ELSE defaultScanNull' = pc[g].arg.policy /\ UNCHANGED defaultMarshalUnset
    /\ Step(g)
    /\ UNCHANGED <<typ, cells, n, other, heap, configMu, last>>

Unlock(g) ==
    /\ At(g, "Unlock")
    /\ configMu' = [configMu EXCEPT !.w = 0]
    /\ Step(g)
    /\ UNCHANGED <<typ, cells, n, other, heap, Config, last>>

RLock(g) ==
    /\ At(g, "RLock")
    /\ CanRLock(configMu)
    /\ configMu' = [configMu EXCEPT !.r = @ \cup {g}]
    /\ Step(g)
    /\ UNCHANGED <<typ, cells, n, other, heap, Config, last>>

(* return defaultMarshalUnset / return defaultScanNull: the result is      *)
(* taken before the deferred RUnlock                                       *)
ReadDefault(g) ==
    /\ At(g, "read")
    /\ LET d == IF pc[g].op \in {"GetDefaultMarshalUnset", "IsZero"}
                THEN defaultMarshalUnset ELSE defaultScanNull
           next == Follows(pc[g].op, "read")
       IN Goto(g, next, <<d>>)
    /\ UNCHANGED <<typ, cells, n, other, heap, Config, configMu, last>>

RUnlock(g) ==
    /\ At(g, "RUnlock")
    /\ configMu' = [configMu EXCEPT !.r = @ \ {g}]
    /\ Step(g)
    /\ UNCHANGED <<typ, cells, n, other, heap, Config, last>>

(* IsZero: n.IsUnset() && n.GetMarshalUnset() == UnsetSkip; GetMarshalUnset *)
(* calls GetDefaultMarshalUnset when the container has no override        *)
TestIsZero(g) ==
    /\ At(g, "test")
    /\ IF ~IsUnset(n) THEN pc' = [pc EXCEPT ![g] = Idle]
       ELSE IF n.marshalUnset = <<>> THEN Goto(g, "RLock", <<>>)
       ELSE Goto(g, "compare", n.marshalUnset)
    /\ UNCHANGED <<typ, cells, n, other, heap, Config, configMu, last>>

Compare(g) ==
    /\ At(g, "compare")
    /\ Step(g)
    /\ UNCHANGED <<typ, cells, n, other, heap, Config, configMu, last>>

(* Scan: a NULL goes to handleScanNull, whose GetScanNull calls             *)
(* GetDefaultScanNull when the container has no override                   *)
Dispatch(g) ==
    /\ At(g, "dispatch")
    /\ IF pc[g].arg # DNil THEN Goto(g, "run", <<>>)
       ELSE IF n.scanNull = <<>> THEN Goto(g, "RLock", <<>>)
       ELSE Goto(g, "mutate", n.scanNull)
    /\ UNCHANGED <<typ, cells, n, other, heap, Config, configMu, last>>

(* n.Unset() or n.SetNull(), by the policy GetScanNull returned *)
Mutate(g) ==
    /\ At(g, "mutate")
    /\ Return(handleScanNullWith(n, heap, pc[g].read[1]))
    /\ Step(g)
    /\ UNCHANGED <<typ, cells, other, Config, configMu, last>>

(* the codec calls that read no package default *)
Run(g) ==
    /\ At(g, "run")
    /\ CASE pc[g].op = "Scan" -> Return(Scan(n, heap, typ, pc[g].arg))
         [] pc[g].op = "UnmarshalJSON" -> Return(UnmarshalJSON(n, heap, typ, pc[g].arg))
         [] pc[g].op = "SetMarshalUnset" ->
                n' = SetMarshalUnset(n, pc[g].arg.policy) /\ UNCHANGED heap
         [] pc[g].op = "SetScanNull" ->
                n' = SetScanNull(n, pc[g].arg.policy) /\ UNCHANGED heap
         [] OTHER -> UNCHANGED <<n, heap>>
    /\ Step(g)
    /\ UNCHANGED <<typ, cells, other, Config, configMu, last>>

NextConfig ==
    \E g \in Procs :
        \/ Begin(g)
        \/ Lock(g)
        \/ WriteDefault(g)
        \/ Unlock(g)
        \/ RLock(g)
        \/ ReadDefault(g)
        \/ RUnlock(g)
        \/ TestIsZero(g)
        \/ Compare(g)
        \/ Dispatch(g)
        \/ Mutate(g)
        \/ Run(g)

SpecConfig == Init /\ [][NextConfig]_vars

----------------------------------------------------------------------------
(* Override pointers: a program holding two containers n and other, whose  *)
(* override fields are kept as pointers into cells, assigning other = n    *)
(* and calling SetMarshalUnset, SetScanNull and the state setters of       *)
(* either.  A copy of the struct copies the two pointers.  None of these   *)
(* calls depends on T, which is an integer or a string here.               *)

(* the container as the methods that read *n.marshalUnset and *n.scanNull  *)
(* see it                                                                  *)
View(c, cs) ==
    [c EXCEPT !.marshalUnset = IF @ = <<>> THEN <<>> ELSE cs[@[1]],
              !.scanNull = IF @ = <<>> THEN <<>> ELSE cs[@[1]]]

(* &b: the parameter b escapes to a cell of its own *)
NewCell(cs) == CHOOSE a \in PolicyAddr : cs[a] = <<>> /\ \A x \in PolicyAddr : cs[x] = <<>> => a <= x

(* *n.marshalUnset = b when there is a cell already *)
StoreMarshalUnset_ThroughPointer(c, cs, b) ==
    IF IsNil(c) THEN [c |-> c, cs |-> cs]
    ELSE IF c.marshalUnset # <<>>
         THEN [c |-> c, cs |-> [cs EXCEPT ![c.marshalUnset[1]] = <<b>>]]
    ELSE [c |-> [c EXCEPT !.marshalUnset = <<NewCell(cs)>>],
          cs |-> [cs EXCEPT ![NewCell(cs)] = <<b>>]]

(* Of.SetMarshalUnset: n.marshalUnset = &b *)
StoreMarshalUnset(c, cs, b) ==
    IF IsNil(c) THEN [c |-> c, cs |-> cs]
    ELSE [c |-> [c EXCEPT !.marshalUnset = <<NewCell(cs)>>],
          cs |-> [cs EXCEPT ![NewCell(cs)] = <<b>>]]

(* Of.SetScanNull: n.scanNull = &b *)
StoreScanNull(c, cs, b) ==
    IF IsNil(c) THEN [c |-> c, cs |-> cs]
    ELSE [c |-> [c EXCEPT !.scanNull = <<NewCell(cs)>>],
          cs |-> [cs EXCEPT ![NewCell(cs)] = <<b>>]]

(* the cells neither container points to any more are reclaimed and the   *)
(* others renamed: the cells of cn to the first two addresses, those of cm *)
(* that are not also cells of cn to the next two.  Addresses have no       *)
(* meaning beyond which pointers are equal.                                *)
Settle(cn, cm, cs) ==
    LET mu == IF cm.marshalUnset = <<>> THEN <<>>
              ELSE IF cm.marshalUnset = cn.marshalUnset THEN <<1>> ELSE <<3>>
        sn == IF cm.scanNull = <<>> THEN <<>>
              ELSE IF cm.scanNull = cn.scanNull THEN <<2>> ELSE <<4>>
    IN [n |-> [cn EXCEPT !.marshalUnset = IF @ = <<>> THEN <<>> ELSE <<1>>,
                         !.scanNull = IF @ = <<>> THEN <<>> ELSE <<2>>],
        other |-> [cm EXCEPT !.marshalUnset = mu, !.scanNull = sn],
        cs |-> [a \in PolicyAddr |->
                  CASE a = 1 /\ cn.marshalUnset # <<>> -> cs[cn.marshalUnset[1]]
                    [] a = 2 /\ cn.scanNull # <<>> -> cs[cn.scanNull[1]]
                    [] a = 3 /\ mu = <<3>> -> cs[cm.marshalUnset[1]]
                    [] a = 4 /\ sn = <<4>> -> cs[cm.scanNull[1]]
                    [] OTHER -> <<>>]]

InitOverride ==
    /\ typ \in {"int", "string"}
    /\ n = ZeroContainer
    /\ other = ZeroContainer
    /\ heap = [a \in Addr |-> Free]
    /\ defaultMarshalUnset = UnsetSkip
    /\ defaultScanNull = ScanNullAsNull
    /\ configMu = Unlocked
    /\ pc = [g \in Procs |-> Idle]
    /\ cells = NoCells
    /\ last = Call("new", "n", NoArg, FALSE)

(* other = n *)
AssignPointers ==
    /\ Copied(n)
    /\ cells' = Settle(n, n, cells).cs
    /\ last' = Call("assign", "other", NoArg, FALSE)
    /\ UNCHANGED <<typ, configMu, pc, Config>>

Stored(to, res) ==
    LET g == Settle(IF to = "n" THEN res.c ELSE n, IF to = "other" THEN res.c ELSE other, res.cs)
    IN n' = g.n /\ other' = g.other /\ cells' = g.cs

EitherStoreMarshalUnset ==
    \E to \in {"n", "other"}, b \in MarshalUnsetBehavior :
        /\ Stored(to, StoreMarshalUnset(Receiver(to), cells, b))
        /\ last' = Call("SetMarshalUnset", to, [policy |-> b], FALSE)
        /\ UNCHANGED <<typ, heap, configMu, pc, Config>>

EitherStoreScanNull ==
    \E to \in {"n", "other"}, b \in ScanNullBehavior :
        /\ Stored(to, StoreScanNull(Receiver(to), cells, b))
        /\ last' = Call("SetScanNull", to, [policy |-> b], FALSE)
        /\ UNCHANGED <<typ, heap, configMu, pc, Config>>

NextOverride ==
    \/ AssignPointers
    \/ EitherSetValue
    \/ EitherSetNull
    \/ EitherUnset
    \/ EitherStoreMarshalUnset
    \/ EitherStoreScanNull
    \/ SetDefaultMarshalUnset
    \/ SetDefaultScanNull

SpecOverride == InitOverride /\ [][NextOverride]_vars

----------------------------------------------------------------------------
(* The combinators seen from their arguments: a program holding two        *)
(* containers n and other, with values, overrides and package defaults of  *)
(* every kind, that calls a combinator on them and only looks at what came *)
(* back.  last.res keeps the container returned as a caller sees it, what *)
(* its IsZero, GetMarshalUnset and GetScanNull answer, and the number of   *)
(* times the function handed in was called.                                *)

EitherSetMarshalUnset ==
    \E to \in {"n", "other"}, b \in MarshalUnsetBehavior :
        /\ n' = IF to = "n" THEN SetMarshalUnset(n, b) ELSE n
        /\ other' = IF to = "other" THEN SetMarshalUnset(other, b) ELSE other
        /\ last' = Call("SetMarshalUnset", to, [policy |-> b], FALSE)
        /\ UNCHANGED <<typ, cells, heap, configMu, pc, Config>>

EitherSetScanNull ==
    \E to \in {"n", "other"}, b \in ScanNullBehavior :
        /\ n' = IF to = "n" THEN SetScanNull(n, b) ELSE n
        /\ other' = IF to = "other" THEN SetScanNull(other, b) ELSE other
        /\ last' = Call("SetScanNull", to, [policy |-> b], FALSE)
        /\ UNCHANGED <<typ, cells, heap, configMu, pc, Config>>

Seen(c, h, calls) ==
    [isSet |-> c.isSet,
     hasVal |-> c.val # NilPtr,
     value |-> IF c.val = NilPtr THEN Free ELSE h[c.val],
     marshalUnset |-> c.marshalUnset,
     scanNull |-> c.scanNull,
     zero |-> IsZero(c),
     policy |-> <<GetMarshalUnset(c), GetScanNull(c)>>,
     calls |-> calls]

(* the call returned: n and other are the caller's variables still, the    *)
(* heap is what the call left of it, and the result goes out of scope      *)
Looked(op, arg, h, res) ==
    /\ n' = Collect2(n, other, h).n
    /\ other' = Collect2(n, other, h).other
    /\ heap' = Collect2(n, other, h).h
    /\ last' = [op |-> op, recv |-> "n", null |-> FALSE, b |-> <<>>, err |-> FALSE,
                arg |-> arg, res |-> res]
    /\ UNCHANGED <<typ, cells, configMu, pc, Config>>

LookMap ==
    \E fn \in Fns :
        LET r == Map(n, heap, typ, fn)
        IN Looked("Map", [fn |-> fn], r.h, Seen(r.c, r.h, r.calls))

LookMapOr ==
    \E fn \in Fns :
        LET r == MapOr(n, heap, typ, ZeroOf(typ), fn)
        IN Looked("MapOr", [fn |-> fn], heap, [v |-> r.v, calls |-> r.calls])

LookFlatMap ==
    \E fn \in FlatFns :
        LET r == FlatMap(n, heap, typ, fn)
        IN Looked("FlatMap", [fn |-> fn], r.h, Seen(r.c, r.h, r.calls))

LookFilter ==
    \E P \in Preds(typ) :
        LET r == Filter(n, heap, P)
        IN Looked("Filter", [P |-> P], heap, Seen(r.c, heap, r.calls))

(* Or(a, b) with each argument the literal Unset, the literal Null, n or    *)
(* other                                                                   *)
OrPairs == {"unset", "null", "n", "other"} \X {"unset", "null", "n", "other"}

LookOr ==
    \E args \in OrPairs :
        LET r == Or([i \in DOMAIN args |-> Arg(args[i])])
        IN Looked("Or", [args |-> args], heap, Seen(r, heap, 0))

NextPure ==
    \/ CopyAssign
    \/ EitherSetValue
    \/ EitherSetNull
    \/ EitherUnset
    \/ EitherSetMarshalUnset
    \/ EitherSetScanNull
    \/ SetDefaultMarshalUnset
    \/ SetDefaultScanNull
    \/ LookMap
    \/ LookMapOr
    \/ LookFlatMap
    \/ LookFilter
    \/ LookOr

(* containers of texts *)
InitPure ==
    /\ typ = "string"
    /\ n = ZeroContainer
    /\ other = ZeroContainer
    /\ heap = [a \in Addr |-> Free]
    /\ defaultMarshalUnset = UnsetSkip
    /\ defaultScanNull = ScanNullAsNull
    /\ configMu = Unlocked
    /\ pc = [g \in Procs |-> Idle]
    /\ cells = NoCells
    /\ last = Call("new", "n", NoArg, FALSE)

SpecPure == InitPure /\ [][NextPure]_vars

----------------------------------------------------------------------------
(* What a caller can observe of a container: its flag, whether it holds a   *)
(* value, the value held and the two overrides.                            *)

Obs(c, h) ==
    [isSet |-> c.isSet,
     hasVal |-> c.val # NilPtr,
     value |-> IF c.val = NilPtr THEN Free ELSE h[c.val],
     marshalUnset |-> c.marshalUnset,
     scanNull |-> c.scanNull]

OnN(op) == last.op = op /\ last.recv = "n"

Constructors == {"new", "FromValue", "Null"}

----------------------------------------------------------------------------
(* Properties *)

(* C1: a container whose isSet flag is false holds no value: isSet = false *)
(* implies val = nil, so IsUnset() implies GetValue() = nil.               *)
C1_UnsetHoldsNoValue ==
    /\ ~n.isSet => n.val = NilPtr
    /\ IsUnset(n) => GetValue(n) = NilPtr

(* C2: when UnmarshalJSON returns an error the container is left           *)
(* unmodified: flag, held value (presence and content) and both overrides  *)
(* are what they were before the call.                                     *)
C2_UnmarshalErrorLeavesUnmodified ==
    [][(OnN("UnmarshalJSON")' /\ last'.err) => Obs(n, heap)' = Obs(n, heap)]_vars

C4_ScanNullPolicy ==
    [][(OnN("Scan")' /\ last'.null) =>
          /\ ~last'.err
          /\ IF GetScanNull(n) = ScanNullAsUnset
             THEN IsUnset(n)' /\ n'.val = NilPtr
             ELSE IsNull(n)']_vars

C4_Witness ==
    /\ OnN("Scan") /\ last.null
    /\ typ = "time" /\ IsUnset(n) /\ n.val = NilPtr
    /\ n.scanNull = <<ScanNullAsUnset>> /\ defaultScanNull = ScanNullAsNull

(* C5: for every declared type and every non-NULL driver input, Scan       *)
(* either returns an error or ends with the container in Value state.      *)
C5_NonNullScanYieldsValue ==
    (OnN("Scan") /\ ~last.null /\ ~last.err) => IsValue(n)

(* C6: when Scan returns an error, the container's state, held value and   *)
(* overrides are exactly what they were before the call.                   *)
C6_ScanErrorLeavesUnmodified ==
    [][(OnN("Scan")' /\ last'.err) => Obs(n, heap)' = Obs(n, heap)]_vars

C6_Witness == OnN("Scan") /\ last.err /\ IsValue(n) /\ typ = "int16"

(* C7: once SetMarshalUnset(b) or SetScanNull(b) has set an override,      *)
(* GetMarshalUnset / GetScanNull return b, and IsZero follows b, whatever  *)
(* SetDefaultMarshalUnset / SetDefaultScanNull calls come later: the       *)
(* setter's step establishes it and every later step on the same container *)
(* other than that setter keeps it.                                        *)
C7_OverrideWins ==
    [][/\ OnN("SetMarshalUnset")' => GetMarshalUnset(n)' = last'.b[1]
       /\ OnN("SetScanNull")' => GetScanNull(n)' = last'.b[1]
       /\ (n.marshalUnset # <<>> /\ ~OnN("SetMarshalUnset")' /\ last'.op \notin Constructors) =>
             /\ GetMarshalUnset(n)' = n.marshalUnset[1]
             /\ IsZero(n)' = (IsUnset(n)' /\ n.marshalUnset[1] = UnsetSkip)
       /\ (n.scanNull # <<>> /\ ~OnN("SetScanNull")' /\ last'.op \notin Constructors) =>
             GetScanNull(n)' = n.scanNull[1]]_vars

C7_Witness ==
    /\ last.op = "SetDefaultMarshalUnset"
    /\ n.marshalUnset # <<>> /\ last.b[1] # n.marshalUnset[1]
    /\ n.scanNull # <<>> /\ defaultScanNull # n.scanNull[1]

(* C8: a container with no override uses the process default current at    *)
(* the moment of the operation: a default setter leaves the container      *)
(* alone and changes what GetScanNull / GetMarshalUnset return on it, a    *)
(* Scan of NULL follows the default in force at the call, and IsZero       *)
(* follows the current default.                                            *)
C8_CurrentDefault ==
    [][/\ (last'.op = "SetDefaultScanNull" /\ n.scanNull = <<>>) =>
             n' = n /\ GetScanNull(n)' = last'.b[1]
       /\ (last'.op = "SetDefaultMarshalUnset" /\ n.marshalUnset = <<>>) =>
             n' = n /\ GetMarshalUnset(n)' = last'.b[1]
       /\ (OnN("Scan")' /\ last'.null /\ n.scanNull = <<>>) =>
             (IsUnset(n)' <=> defaultScanNull = ScanNullAsUnset)
       /\ n.marshalUnset = <<>> =>
             (IsZero(n) <=> (IsUnset(n) /\ defaultMarshalUnset = UnsetSkip))]_vars

(* a Value container, built while the default was ScanNullAsNull, right    *)
(* after the default was changed                                           *)
C8_Witness ==
    /\ last.op = "SetDefaultScanNull" /\ last.b = <<ScanNullAsUnset>>
    /\ IsValue(n) /\ n.scanNull = <<>> /\ GetScanNull(n) = ScanNullAsUnset

(* C9: whenever the container reports IsUnset or IsNull, Value() returns   *)
(* the storage NULL with no error.                                         *)
C9_UnsetAndNullWriteNull ==
    (IsUnset(n) \/ IsNull(n)) => Value(n, heap, typ) = Ok(DNil)

(* C10: UnmarshalJSON given the literal null or a nil byte slice returns   *)
(* success and leaves the container Null: IsNull true, IsUnset false,      *)
(* GetValue nil.                                                           *)
C10_UnmarshalNull ==
    (OnN("UnmarshalJSON") /\ last.null) =>
        ~last.err /\ IsNull(n) /\ ~IsUnset(n) /\ GetValue(n) = NilPtr

C10_Witness == OnN("UnmarshalJSON") /\ last.null /\ IsNull(n) /\ typ = "json"

(* C11: after UnmarshalJSON succeeds on a well-formed non-null input the   *)
(* container is in Value state and holds exactly the decoding of the input *)
(* into a fresh T, whatever it was and held before.                        *)
C11_UnmarshalDecodesFresh ==
    \A data \in JSONInputs(typ) :
        LET res == UnmarshalJSON(n, heap, typ, data)
            fresh == JSONUnmarshal(typ, data, ZeroOf(typ))
        IN (data.f \notin {"nilbytes", "jnull"} /\ ~res.err) =>
               IsValue(res.c) /\ res.h[res.c.val] = fresh.v

C14_IsZeroUnsetAndSkip ==
    OnN("IsZero") =>
        LET policy == IF n.marshalUnset # <<>> THEN n.marshalUnset[1] ELSE defaultMarshalUnset
        IN last.out <=> (~n.isSet /\ policy = UnsetSkip)

C14_Witness ==
    /\ OnN("IsZero")
    /\ ~n.isSet
    /\ n.marshalUnset = <<UnsetNull>>
    /\ defaultMarshalUnset = UnsetSkip
    /\ ~last.out

(* what a fresh container becomes when it unmarshals data *)
IntoFresh(data) == UnmarshalJSON(ZeroContainer, [a \in Addr |-> Free], typ, data)

C16_NullAndUnsetRoundTripToNull ==
    (OnN("MarshalJSON") /\ (~n.isSet \/ n.val = NilPtr)) =>
        LET r == IntoFresh(last.out)
            back == UnmarshalJSON(n, heap, typ, last.out)
        IN /\ ~last.err
           /\ ~r.err /\ r.c.isSet /\ r.c.val = NilPtr
           /\ ~back.err /\ back.c.isSet /\ back.c.val = NilPtr

C16_Witness ==
    /\ OnN("MarshalJSON")
    /\ n = ZeroContainer
    /\ last.out = JNull(FALSE)
    /\ IsNull(IntoFresh(last.out).c)

(* C17: in a record whose fields are tagged for omission, the key of a     *)
(* container field is left out exactly when the field is Unset and its     *)
(* effective policy is UnsetSkip; a Null field is written as null and a    *)
(* Value field as its value.  Decoding an object that lacks the key does   *)
(* not call the field's UnmarshalJSON and leaves the field as it was, so   *)
(* an Unset field written without its key is read back Unset.              *)
C17_KeyEmitted ==
    OnN("json.Marshal") =>
        LET policy == IF n.marshalUnset # <<>> THEN n.marshalUnset[1] ELSE defaultMarshalUnset
        IN /\ last.out = <<>> <=> (~n.isSet /\ policy = UnsetSkip)
           /\ (n.isSet /\ n.val = NilPtr) => last.out = <<JNull(FALSE)>>
           /\ (n.isSet /\ n.val # NilPtr) => last.out = <<JSONMarshal(typ, heap[n.val])>>
           /\ last.out = <<>> =>
                  LET r == UnmarshalRecordField(ZeroContainer, [a \in Addr |-> Free], typ, last.out)
                  IN ~r.err /\ ~r.c.isSet /\ r.c.val = NilPtr

C17_AbsentKeyLeavesField ==
    (last'.op = "json.Unmarshal" /\ last'.absent) =>
        ~last'.err /\ Obs(n', heap') = Obs(n, heap)

C18_Constructors ==
    /\ OnN("new") => ~n.isSet /\ n.val = NilPtr /\ IsUnset(n) /\ ~IsNull(n)
    /\ OnN("Null") => n.isSet /\ n.val = NilPtr /\ IsNull(n) /\ ~IsUnset(n)
    /\ OnN("FromValue") =>
           /\ n.isSet /\ n.val # NilPtr /\ heap[n.val] = last.v[1]
           /\ ~IsNull(n) /\ ~IsUnset(n) /\ IsSet(n)

C18_Witness ==
    /\ OnN("FromValue")
    /\ last.v = <<ZeroOf(typ)>>
    /\ IsValue(n)
    /\ heap[n.val] = ZeroOf(typ)

(* C19: whatever state a non-nil container is in, SetValue(v) leaves it    *)
(* Value(v), SetNull() leaves it Null, Unset() leaves it Unset holding no  *)
(* value, and SetValueP(p) leaves it Null when p is nil and holding what p *)
(* points to otherwise.                                                    *)
C19_SettersDecideTheState ==
    /\ OnN("SetValue") => n.isSet /\ n.val # NilPtr /\ heap[n.val] = last.v[1]
    /\ OnN("SetNull") => n.isSet /\ n.val = NilPtr
    /\ OnN("Unset") => ~n.isSet /\ n.val = NilPtr
    /\ OnN("SetValueP") =>
           IF last.v = <<>> THEN n.isSet /\ n.val = NilPtr
           ELSE n.isSet /\ n.val # NilPtr /\ heap[n.val] = last.v[1]

C19_Witness ==
    /\ OnN("SetValueP")
    /\ last.v = <<>>
    /\ IsNull(n)
    /\ n.scanNull = <<ScanNullAsUnset>>

(* C20: Unset() and SetNull() are idempotent: the second of two calls in a *)
(* row leaves the flag, the value and the overrides as the first left      *)
(* them.                                                                   *)
C20_SecondCallChangesNothing ==
    (last'.op \in {"Unset", "SetNull"} /\ last'.recv = "n" /\ last'.again) =>
        Obs(n', heap') = Obs(n, heap)

C20_Idempotent == [][C20_SecondCallChangesNothing]_vars

C20_Witness ==
    /\ OnN("Unset")
    /\ last.again
    /\ ~n.isSet /\ n.val = NilPtr
    /\ n.marshalUnset = <<UnsetNull>>

Mutators == {"SetValue", "SetValueP", "SetNull", "Unset", "Scan", "UnmarshalJSON"}

(* C12: each container owns its value alone: once a Value container has    *)
(* been copied, no SetValue, SetValueP, SetNull, Unset, Scan or            *)
(* UnmarshalJSON on one copy, failing or not, changes the state or the     *)
(* value seen through the other copy.                                      *)
C12_OtherCopyUntouched ==
    /\ (last'.op \in Mutators /\ last'.recv = "n" /\ IsValue(other)) =>
           Obs(other', heap') = Obs(other, heap)
    /\ (last'.op \in Mutators /\ last'.recv = "other" /\ IsValue(n)) =>
           Obs(n', heap') = Obs(n, heap)

C12_CopiesOwnTheirValue == [][C12_OtherCopyUntouched]_vars

(* C21: the value accessors agree with the state.  In Value(v) state Get   *)
(* returns (v, true), GetOr(d) and MustGet return v, and Ptr and GetValue  *)
(* return a pointer to v; in Unset or Null state Get returns (zero,        *)
(* false), GetOr(d) returns d, Ptr and GetValue return nil and MustGet     *)
(* panics.                                                                 *)
C21_AccessorsAgreeWithState ==
    (last.recv = "n" /\ last.op \in {"Get", "GetOr", "MustGet", "Ptr", "GetValue"}) =>
        IF n.isSet /\ n.val # NilPtr
        THEN CASE last.op = "Get" -> last.out = [v |-> heap[n.val], ok |-> TRUE]
               [] last.op = "GetOr" -> last.out = heap[n.val]
               [] last.op = "MustGet" -> last.out = [panic |-> FALSE, v |-> heap[n.val]]
               [] OTHER -> last.out = <<heap[n.val]>>
        ELSE CASE last.op = "Get" -> last.out = [v |-> ZeroOf(typ), ok |-> FALSE]
               [] last.op = "GetOr" -> last.out = last.d
               [] last.op = "MustGet" -> last.out.panic
               [] OTHER -> last.out = <<>>

OnOther(op) == last.op = op /\ last.recv = "other"

IsUnsetState(c) == ~c.isSet /\ c.val = NilPtr
IsNullState(c) == c.isSet /\ c.val = NilPtr
Holds(c, h, v) == c.isSet /\ c.val # NilPtr /\ h[c.val] = v

(* C23: Map(n, f) is Unset when n is Unset, Null when n is Null and holds  *)
(* f(v) when n holds v; Map after a Filter that rejected the value is      *)
(* Null.                                                                   *)
C23_Map ==
    /\ OnOther("Map") =>
           IF ~n.isSet THEN IsUnsetState(other)
           ELSE IF n.val = NilPtr THEN IsNullState(other)
           ELSE Holds(other, heap, Apply(last.arg.fn, typ, heap[n.val]))
    /\ (OnOther("MapFilter") /\ n.isSet /\ n.val # NilPtr /\ heap[n.val] \notin last.arg.P) =>
           IsNullState(other)

C23_Witness ==
    /\ OnOther("MapFilter")
    /\ IsValue(n)
    /\ heap[n.val] = ZeroOf(typ)
    /\ last.arg.P = Values(typ) \ {ZeroOf(typ)}
    /\ IsNull(other)

(* C24: FlatMap(n, f) is Unset when n is Unset, Null when n is Null, and   *)
(* the very container f(v) returns when n holds v: Unset, Null or Value,   *)
(* with the overrides f gave it.                                           *)
C24_FlatMap ==
    OnOther("FlatMap") =>
        IF ~n.isSet THEN IsUnsetState(other)
        ELSE IF n.val = NilPtr THEN IsNullState(other)
        ELSE LET r == ApplyFlat(last.arg.fn, typ, [a \in Addr |-> Free], heap[n.val])
             IN Obs(other, heap) = Obs(r.c, r.h)

C24_Witness ==
    /\ OnOther("FlatMap")
    /\ last.arg.fn = "unset"
    /\ IsValue(n)
    /\ other = ZeroContainer

(* C25: Filter(n, p) is Unset when n is Unset, Null when n is Null, n      *)
(* unchanged when n holds v and p(v) is true, and Null, never Unset, when  *)
(* n holds v and p(v) is false.                                            *)
C25_Filter ==
    OnOther("Filter") =>
        IF ~n.isSet THEN IsUnsetState(other)
        ELSE IF n.val = NilPtr THEN IsNullState(other)
        ELSE IF heap[n.val] \in last.arg.P THEN Obs(other, heap) = Obs(n, heap)
        ELSE IsNullState(other) /\ ~IsUnset(other)

C25_Witness ==
    /\ OnOther("Filter")
    /\ IsValue(n)
    /\ heap[n.val] \notin last.arg.P
    /\ last.arg.P # {}
    /\ IsNull(other)

(* C26: Or returns the leftmost of its arguments that is in Value state,   *)
(* passing over every Unset and Null argument before it, and Null, never   *)
(* Unset, when no argument is in Value state, the call without arguments   *)
(* included.                                                               *)
C26_OrStep ==
    (last'.op = "Or" /\ last'.recv = "other") =>
        LET args == [i \in DOMAIN last'.arg.args |-> Arg(last'.arg.args[i])]
            values == {i \in DOMAIN args : args[i].isSet /\ args[i].val # NilPtr}
        IN IF values = {} THEN IsNullState(other') /\ ~IsUnset(other')
           ELSE \E i \in values :
                    /\ \A j \in values : i <= j
                    /\ Obs(other', heap') = Obs(args[i], heap)

C26_Or == [][C26_OrStep]_vars

C26_Witness ==
    /\ OnOther("Or")
    /\ last.arg.args = <<"null", "n">>
    /\ IsValue(n)
    /\ Obs(other, heap) = Obs(n, heap)

(* C27: FromPtr(p) is Null when p is nil and holds what p points to        *)
(* otherwise; FromBool(v, ok) holds v when ok is true and is Null          *)
(* otherwise; neither returns an Unset container.                          *)
C27_FromPtrFromBool ==
    /\ OnOther("FromPtr") =>
           /\ IF last.arg.ptr = <<>> THEN IsNullState(other)
              ELSE Holds(other, heap, last.arg.ptr[1])
           /\ ~IsUnset(other)
    /\ OnOther("FromBool") =>
           /\ IF last.arg.ok THEN Holds(other, heap, last.arg.value) ELSE IsNullState(other)
           /\ ~IsUnset(other)

C27_Witness ==
    /\ OnOther("FromBool")
    /\ ~last.arg.ok
    /\ last.arg.value # ZeroOf(typ)
    /\ IsNull(other)

(* C28: MapOr(n, d, f) returns d when n is Unset or Null and f(v) when n   *)
(* holds v.                                                                *)
C28_MapOr ==
    OnN("MapOr") =>
        last.out = IF ~n.isSet \/ n.val = NilPtr THEN last.arg.d
                   ELSE Apply(last.arg.fn, typ, heap[n.val])

C28_Witness ==
    /\ OnN("MapOr")
    /\ n = ZeroContainer
    /\ last.arg = [fn |-> "iszero", d |-> BoolV(FALSE)]
    /\ last.out = BoolV(FALSE)

(* Scan of the integer last'.int[1] into an int16 container: an error and  *)
(* the container as it was when the integer is below lo or above 32767,    *)
(* and the integer held unchanged otherwise                                *)
Int16ScanStep(lo) ==
    (last'.op = "Scan" /\ last'.recv = "n" /\ typ = "int16" /\ last'.int # <<>>) =>
        LET i == last'.int[1]
        IN IF i < lo \/ i > MaxInt16
           THEN last'.err /\ Obs(n', heap') = Obs(n, heap)
           ELSE ~last'.err /\ Holds(n', heap', IntV(i))

(* C29, as claimed: Scan into an int16 container returns an error and      *)
(* stores nothing for every integer whose magnitude is outside +-32767,    *)
(* and stores every integer within it unchanged.                           *)
C29_RejectsOutsideMagnitude == [][Int16ScanStep(-MaxInt16)]_vars

(* C29, amended: Scan into an int16 container returns an error and stores  *)
(* nothing for every integer outside -32768..32767, never a truncated      *)
(* value, and stores every integer of that range, -32768 included,         *)
(* unchanged as Value.                                                     *)
C29_RejectsOutsideInt16 == [][Int16ScanStep(MinInt16)]_vars

C29_Witness ==
    /\ OnN("Scan")
    /\ typ = "int16"
    /\ last.int = <<MinInt16>>
    /\ ~last.err
    /\ Holds(n, heap, IntV(MinInt16))

(* C30: Scan into a time container accepts a time value and a string: a    *)
(* time value is held as it is, a string that parses leaves the container  *)
(* in Value state holding the parsed time, and a string that does not      *)
(* parse makes Scan return an error.                                       *)
C30_TimeScanAcceptsBoth ==
    typ = "time" =>
        \A v \in ScanInputs("time") :
            LET res == Scan(n, heap, "time", v)
            IN /\ v.k = "time" => ~res.err /\ Holds(res.c, res.h, TimeV(v.t))
               /\ v.k = "string" =>
                      IF TimeParseSelf(v.s).err THEN res.err
                      ELSE ~res.err /\ Holds(res.c, res.h, TimeParseSelf(v.s).v)

(* C31: Value() of a container holding a value returns the value itself    *)
(* when it is a native scalar; for another type it returns what the type's *)
(* own Valuer returns and fails when that fails; for a type without Valuer *)
(* it returns the JSON text of the value and fails when the value has none *)
C31_ValueByCategory ==
    (OnN("Value") /\ IsValue(n)) =>
        LET v == heap[n.val]
        IN CASE v.k \in {"string", "int", "float", "bool", "time", "uuid"} -> last.out = Ok(v)
             [] v.k = "phone" -> last.out = Ok(DStr(v.s))
             [] v.k = "cents" -> IF v.i = 0 THEN last.err ELSE last.out = Ok(DInt(v.i))
             [] v.k = "obj" -> last.out = Ok(DStr(JObj(<<Dec(v.a)>>, <<Dec(v.b)>>)))
             [] v.k = "box" -> IF v.chan THEN last.err ELSE last.out = Ok(DStr(JBox(Dec(1))))

C31_Witness ==
    /\ OnN("Value") /\ IsValue(n)
    /\ typ = "cents" /\ heap[n.val] = CentsV(0) /\ last.err

(* C32: while a goroutine is inside a setter, between its Lock and its     *)
(* Unlock, no other goroutine is inside a setter or inside a getter,       *)
(* between its RLock and its RUnlock                                       *)
Writing(g) == pc[g].at \in {"write", "Unlock"}

Reading(g) == pc[g].at \in {"read", "RUnlock"}

C32_WritersExclusive ==
    \A g, h \in Procs : (g # h /\ Writing(g)) => (~Writing(h) /\ ~Reading(h))

(* a setter about to write while another call waits at the lock *)
C32_Witness ==
    \E g, h \in Procs :
        /\ g # h
        /\ pc[g].at = "write"
        /\ pc[h].at \in {"Lock", "RLock"}

(* two getters inside at once: readers share the lock *)
ReadersShare == \E g, h \in Procs : g # h /\ Reading(g) /\ Reading(h)

(* C33: a goroutine that is about to mutate the container (the Unset or    *)
(* SetNull of a scanned NULL) or to run Scan, Value, MarshalJSON or        *)
(* UnmarshalJSON does not hold configMu: the default it needed was read    *)
(* and the lock released before                                            *)
C33_LockNotHeldAcrossCodec ==
    \A g \in Procs : pc[g].at \in {"mutate", "run"} => ~HoldsMu(g)

(* the Unset or SetNull of a scanned NULL is due, the package default read *)
C33_Witness ==
    /\ pc[Owner].op = "Scan" /\ pc[Owner].at = "mutate"
    /\ n.scanNull = <<>> /\ pc[Owner].read = <<defaultScanNull>>
    /\ ~HoldsMu(Owner)

(* C34: the getters return UnsetSkip and ScanNullAsNull at the start; a    *)
(* setter call makes the getter of its axis return its argument, and no    *)
(* other call changes what a getter returns: so each getter returns the    *)
(* argument of the last setter call of its axis, or the initial default    *)
C34_Step ==
    /\ IF last'.op = "SetDefaultMarshalUnset"
       THEN GetDefaultMarshalUnset' = last'.b[1]
       ELSE GetDefaultMarshalUnset' = GetDefaultMarshalUnset
    /\ IF last'.op = "SetDefaultScanNull"
       THEN GetDefaultScanNull' = last'.b[1]
       ELSE GetDefaultScanNull' = GetDefaultScanNull

C34_GettersFollowSetters ==
    /\ GetDefaultMarshalUnset = UnsetSkip
    /\ GetDefaultScanNull = ScanNullAsNull
    /\ [][C34_Step]_vars

C34_Witness ==
    /\ last.op = "SetDefaultMarshalUnset" /\ last.b = <<UnsetSkip>>
    /\ GetDefaultMarshalUnset = UnsetSkip
    /\ GetDefaultScanNull = ScanNullAsUnset

(* C35: SetDefaultMarshalUnset leaves the package scan-null default as it  *)
(* was and SetDefaultScanNull the package marshal-unset default;           *)
(* SetMarshalUnset on a container leaves its scan-null override as it was  *)
(* and SetScanNull its marshal-unset override                              *)
C35_Step ==
    /\ last'.op = "SetDefaultMarshalUnset" => defaultScanNull' = defaultScanNull
    /\ last'.op = "SetDefaultScanNull" => defaultMarshalUnset' = defaultMarshalUnset
    /\ (last'.op = "SetMarshalUnset" /\ last'.recv = "n") =>
            (n'.scanNull = n.scanNull /\ n'.marshalUnset = last'.b)
    /\ (last'.op = "SetScanNull" /\ last'.recv = "n") =>
            (n'.marshalUnset = n.marshalUnset /\ n'.scanNull = last'.b)

C35_AxesIndependent == [][C35_Step]_vars

(* an override of each axis set one after the other, both in place *)
C35_Witness ==
    /\ OnN("SetScanNull")
    /\ n.scanNull = <<ScanNullAsUnset>> /\ n.marshalUnset = <<UnsetNull>>
    /\ defaultMarshalUnset = UnsetNull /\ defaultScanNull = ScanNullAsUnset

(* C36: a call of SetValue, SetValueP, SetNull, Unset, Scan or             *)
(* UnmarshalJSON on the container, returning an error or not, leaves its   *)
(* marshal-unset override and its scan-null override as they were          *)
C36_Step ==
    (last'.op \in Mutators /\ last'.recv = "n") =>
        (n'.marshalUnset = n.marshalUnset /\ n'.scanNull = n.scanNull)

C36_TransitionsKeepOverrides == [][C36_Step]_vars

(* Unset on a container with both overrides, which are still there *)
C36_Witness ==
    /\ OnN("Unset") /\ IsUnset(n)
    /\ n.marshalUnset = <<UnsetNull>> /\ n.scanNull = <<ScanNullAsUnset>>

(* C37: SetMarshalUnset and SetScanNull leave the flag, the presence of a  *)
(* value and the value of their receiver as they were; and they leave the  *)
(* effective policies of the other container as they were, also when the   *)
(* receiver is a copy of it and shares its override pointers               *)
State3(c, h) ==
    [isSet |-> c.isSet, hasVal |-> c.val # NilPtr,
     value |-> IF c.val = NilPtr THEN Free ELSE h[c.val]]

Effective(c, cs) == <<GetMarshalUnset(View(c, cs)), GetScanNull(View(c, cs))>>

C37_Step ==
    (last'.op \in {"SetMarshalUnset", "SetScanNull"}) =>
        /\ State3(n', heap') = State3(n, heap)
        /\ State3(other', heap') = State3(other, heap)
        /\ last'.recv = "other" => Effective(n', cells') = Effective(n, cells)
        /\ last'.recv = "n" => Effective(other', cells') = Effective(other, cells)

C37_OverrideSettersAreLocal == [][C37_Step]_vars

(* other, a copy of n still sharing its scan-null cell, was given another  *)
(* marshal-unset policy than n, which kept its own                         *)
C37_Witness ==
    /\ last.op = "SetMarshalUnset" /\ last.recv = "other"
    /\ IsValue(n) /\ other.val = n.val
    /\ n.scanNull # <<>> /\ other.scanNull = n.scanNull
    /\ n.marshalUnset # <<>> /\ other.marshalUnset # n.marshalUnset
    /\ Effective(n, cells)[1] = UnsetNull /\ Effective(other, cells)[1] = UnsetSkip

(* C38: a call of Map, MapOr, FlatMap, Filter or Or leaves the flag, the   *)
(* value and the overrides of every container handed to it as they were,   *)
(* and Map, MapOr, FlatMap and Filter do not call the function handed in   *)
(* when the container is Unset or Null                                     *)
Combinators == {"Map", "MapOr", "FlatMap", "Filter", "Or"}

C38_Step ==
    (last'.op \in Combinators) =>
        /\ Obs(n', heap') = Obs(n, heap)
        /\ Obs(other', heap') = Obs(other, heap)
        /\ (last'.op # "Or" /\ (IsUnset(n) \/ IsNull(n))) => last'.res.calls = 0

C38_CombinatorsArePure == [][C38_Step]_vars

(* FlatMap of a Null container with overrides, whose function would have   *)
(* built a container from the value                                        *)
C38_Witness ==
    /\ last.op = "FlatMap" /\ last.arg.fn = "wrap"
    /\ IsNull(n) /\ n.marshalUnset # <<>>
    /\ IsValue(other)
    /\ last.res.calls = 0

(* C39: the container Filter returns for a value the predicate accepts has *)
(* the overrides of its source, and the one Or returns for a found value   *)
(* the overrides of that argument; the container Map returns, the one      *)
(* FlatMap or Filter returns for an Unset or Null source, the one Filter   *)
(* returns for a rejected value and the one Or returns when no argument    *)
(* holds a value have no override, and their IsZero, GetMarshalUnset and   *)
(* GetScanNull answer by the package defaults of the moment                *)
Carries(res, c) == res.marshalUnset = c.marshalUnset /\ res.scanNull = c.scanNull

Fresh(res) ==
    /\ res.marshalUnset = <<>> /\ res.scanNull = <<>>
    /\ res.policy = <<defaultMarshalUnset, defaultScanNull>>
    /\ res.zero = (~res.isSet /\ defaultMarshalUnset = UnsetSkip)

C39_OverridesCarried ==
    /\ last.op = "Map" => Fresh(last.res)
    /\ (last.op = "FlatMap" /\ (IsUnset(n) \/ IsNull(n))) => Fresh(last.res)
    /\ last.op = "Filter" =>
           IF IsValue(n) /\ heap[n.val] \in last.arg.P
           THEN Carries(last.res, n) ELSE Fresh(last.res)
    /\ last.op = "Or" =>
           LET args == [i \in DOMAIN last.arg.args |-> Arg(last.arg.args[i])]
               found == {i \in DOMAIN args : IsValue(args[i])}
           IN IF found = {} THEN Fresh(last.res)
              ELSE \E i \in found : (\A j \in found : i <= j) /\ Carries(last.res, args[i])

(* a value with both overrides rejected by Filter: the Null that comes     *)
(* back has none and answers by the package defaults, which were changed   *)
C39_Witness ==
    /\ last.op = "Filter" /\ IsValue(n) /\ heap[n.val] \notin last.arg.P
    /\ n.marshalUnset = <<UnsetSkip>> /\ n.scanNull = <<ScanNullAsNull>>
    /\ defaultMarshalUnset = UnsetNull /\ defaultScanNull = ScanNullAsUnset
    /\ last.res.isSet /\ ~last.res.hasVal
    /\ last.res.policy = <<UnsetNull, ScanNullAsUnset>>

====
